---------------------------- MODULE Spec2Model ----------------------------
(***************************************************************************)
(* TheDocs: the file-backed document index (app/services/index_store.py)   *)
(* and the request handlers that compose its operations (app/main.py).     *)
(*                                                                         *)
(* Strings are sequences of one-character strings, so that strip(),        *)
(* lower(), splitext() and the file-name arithmetic are computed and not   *)
(* assumed.  A date or a timestamp is a one-token string.                  *)
(***************************************************************************)
EXTENDS Integers, Sequences, FiniteSets, TLC

VARIABLES
    index,      \* database/index.csv: a File
    tmp,        \* tmp[p]: the NamedTemporaryFile of p's running _write_rows, or NoFile
    lock,       \* holder of FileLock(index.csv.lock), or NoProc
    files,      \* markdown_files/: a function from the names of its files to their content
    pc,         \* pc[p]: where process p stands in its operation / handler
    op,         \* op[p]: the operation p runs and its arguments
    rows,       \* rows[p]: the local list `rows` of the running store operation
    readRows,   \* readRows[p]: what p's last _read_rows returned
    listing,    \* listing[p]: `files` of sync_new_files / `filename` chosen by save_markdown_file
    run,        \* run[p]: the local variables of the request handler p runs
    nops,       \* number of operations / handlers started so far
    serial,     \* history: the index file a serial execution in commit order would hold
    complete,   \* history: the table handed to the last finished _write_rows
    engine,     \* SearchService: its client, _index_ready and the documents of the engine
    reply       \* the search call made last and what it returned

vars == <<index, tmp, lock, files, pc, op, rows, readRows, listing, run,
          nops, serial, complete, engine, reply>>

-----------------------------------------------------------------------------
(* Bounds of the model.                                                    *)

MaxOps == 2

Procs == {"p1", "p2"}

NoProc == "none"

\* Python's None where a string is expected: a value no string equals.
None == <<"<None>">>

\* A file of the database directory: the data rows of the CSV (the header row is
\* implicit), or no file at all.
File(cells) == [exists |-> TRUE, cells |-> cells]
NoFile == [exists |-> FALSE, cells |-> <<>>]

-----------------------------------------------------------------------------
(* Characters and strings.                                                 *)

\* The characters the model uses, in ASCII order.
Alphabet ==
    <<" ", "!", "-", ".", "/", "0", "1", "2", "3", "4", "5", "6", "7", "8", "9",
      "A", "D", "M", "R", "X", "Y", "_",
      "a", "b", "c", "d", "e", "k", "m", "n", "o", "p", "r", "t", "u", "w", "x", "y">>

RECURSIVE CodeFrom(_, _)
CodeFrom(c, i) ==
    IF i > Len(Alphabet) THEN 0
    ELSE IF Alphabet[i] = c THEN i ELSE CodeFrom(c, i + 1)

\* ord(c), up to an order-preserving renumbering; tokens outside the alphabet
\* (dates, timestamps, contents) sort first.
Code(c) == CodeFrom(c, 1)

\* str.lower() on one character.
LowerChar(c) ==
    CASE c = "A" -> "a"
      [] c = "D" -> "d"
      [] c = "M" -> "m"
      [] c = "R" -> "r"
      [] c = "X" -> "x"
      [] c = "Y" -> "y"
      [] OTHER -> c

Lower(s) == [i \in 1..Len(s) |-> LowerChar(s[i])]

IsSpace(c) == c = " "

RECURSIVE LStrip(_)
LStrip(s) == IF s # <<>> /\ IsSpace(Head(s)) THEN LStrip(Tail(s)) ELSE s

RECURSIVE RStrip(_)
RStrip(s) ==
    IF s # <<>> /\ IsSpace(s[Len(s)]) THEN RStrip(SubSeq(s, 1, Len(s) - 1)) ELSE s

\* str.strip()
Strip(s) == RStrip(LStrip(s))

\* s < t for Python strings (lexicographic on code points).
RECURSIVE StrLess(_, _)
StrLess(s, t) ==
    IF t = <<>> THEN FALSE
    ELSE IF s = <<>> THEN TRUE
    ELSE IF Code(Head(s)) # Code(Head(t)) THEN Code(Head(s)) < Code(Head(t))
    ELSE StrLess(Tail(s), Tail(t))

\* str.rfind(c) as a 1-based position, 0 when c does not occur.
RECURSIVE RFindFrom(_, _, _)
RFindFrom(s, c, i) ==
    IF i = 0 THEN 0 ELSE IF s[i] = c THEN i ELSE RFindFrom(s, c, i - 1)

RFind(s, c) == RFindFrom(s, c, Len(s))

\* sorted(set of strings) as a sequence.
RECURSIVE SortedSeq(_)
SortedSeq(S) ==
    IF S = {} THEN <<>>
    ELSE LET least == CHOOSE x \in S : \A y \in S \ {x} : StrLess(x, y)
         IN  <<least>> \o SortedSeq(S \ {least})

Range(s) == {s[i] : i \in 1..Len(s)}

-----------------------------------------------------------------------------
(* Clock readings: datetime.utcnow() is an input of the operation.         *)

\* _today_str()
TodayStr(k) == IF k = 1 THEN <<"day1">> ELSE <<"day2">>

\* _timestamp()
Timestamp(k) == IF k = 1 THEN <<"day1 10:00:00">> ELSE <<"day2 10:00:00">>

-----------------------------------------------------------------------------
(* File names: sanitize_filename and the directory helpers.                *)

Digits == <<"0", "1", "2", "3", "4", "5", "6", "7", "8", "9">>

\* str(n) for n >= 0
RECURSIVE IntStr(_)
IntStr(n) == IF n < 10 THEN <<Digits[n + 1]>> ELSE IntStr(n \div 10) \o <<Digits[(n % 10) + 1]>>

ExtMd == <<".", "m", "d">>
ExtMarkdown == <<".", "m", "a", "r", "k", "d", "o", "w", "n">>

ALLOWED_EXTENSIONS == {ExtMd, ExtMarkdown}

\* os.path.basename: what follows the last "/".
Basename(path) == SubSeq(path, RFind(path, "/") + 1, Len(path))

\* os.path.splitext of a name without directory: the extension starts at the last
\* dot, unless only dots precede it.
SplitExt(base) ==
    LET dot == RFind(base, ".")
    IN  IF dot > 0 /\ \E i \in 1..(dot - 1) : base[i] # "."
        THEN [name |-> SubSeq(base, 1, dot - 1), ext |-> SubSeq(base, dot, Len(base))]
        ELSE [name |-> base, ext |-> <<>>]

\* pathlib's PurePath.suffix of a directory entry's name.
PathSuffix(name) ==
    LET dot == RFind(name, ".")
    IN  IF 1 < dot /\ dot < Len(name) THEN SubSeq(name, dot, Len(name)) ELSE <<>>

\* [A-Za-z0-9_-]
SafeChars ==
    {"0", "1", "2", "3", "4", "5", "6", "7", "8", "9", "A", "D", "M", "R", "X", "Y", "_",
     "-", "a", "b", "c", "d", "e", "k", "m", "n", "o", "p", "r", "t", "u", "w", "x", "y"}

\* A faulty substitution: every character outside the class becomes an underscore.
SubUnsafeEach(s, inRun) == [i \in 1..Len(s) |-> IF s[i] \in SafeChars THEN s[i] ELSE "_"]

\* re.sub(r"[^A-Za-z0-9_-]+", "_", s): inRun says the previous character was replaced.
RECURSIVE SubUnsafe(_, _)
SubUnsafe(s, inRun) ==
    IF s = <<>> THEN <<>>
    ELSE IF Head(s) \in SafeChars THEN <<Head(s)>> \o SubUnsafe(Tail(s), FALSE)
    ELSE IF inRun THEN SubUnsafe(Tail(s), TRUE)
    ELSE <<"_">> \o SubUnsafe(Tail(s), TRUE)

RECURSIVE LStripChar(_, _)
LStripChar(s, c) == IF s # <<>> /\ Head(s) = c THEN LStripChar(Tail(s), c) ELSE s

RECURSIVE RStripChar(_, _)
RStripChar(s, c) ==
    IF s # <<>> /\ s[Len(s)] = c THEN RStripChar(SubSeq(s, 1, Len(s) - 1), c) ELSE s

\* str.strip(c)
StripChar(s, c) == RStripChar(LStripChar(s, c), c)

\* raise ValueError("Unsupported file extension")
ValueError == <<"<ValueError>">>

sanitize_filename(original_name) ==
    LET parts == SplitExt(Basename(original_name))
        ext   == Lower(parts.ext)
        name  == StripChar(SubUnsafe(parts.name, FALSE), "_")
    IN  IF ext \notin ALLOWED_EXTENSIONS THEN ValueError
        ELSE (IF name = <<>> THEN <<"d", "o", "c", "u", "m", "e", "n", "t">> ELSE name) \o ext

\* Path.exists() under markdown_dir; dir is the directory as a function name -> content.
Exists(dir, name) == name \in DOMAIN dir

\* A faulty search: the counter of the candidate is not the one that was tested.
UniqueFromNext(dir, name, ext, counter) ==
    IF ~Exists(dir, name \o <<"-">> \o IntStr(counter) \o ext)
    THEN name \o <<"-">> \o IntStr(counter + 1) \o ext
    ELSE name \o <<"-">> \o IntStr(counter + 2) \o ext

RECURSIVE UniqueFrom(_, _, _, _)
UniqueFrom(dir, name, ext, counter) ==
    LET candidate == name \o <<"-">> \o IntStr(counter) \o ext
    IN  IF ~Exists(dir, candidate) THEN candidate
        ELSE UniqueFrom(dir, name, ext, counter + 1)

\* A faulty ensure_unique_filename: the name is returned whether it is taken or not.
EnsureUniqueKeep(dir, filename) == filename

ensure_unique_filename(dir, filename) ==
    IF ~Exists(dir, filename) THEN filename
    ELSE LET parts == SplitExt(filename) IN UniqueFrom(dir, parts.name, parts.ext, 1)

\* iterdir() gives the entries of markdown_dir itself: a path with a "/" in it is no
\* entry of the directory.
list_markdown_files(dir) ==
    SortedSeq({n \in DOMAIN dir :
                  Basename(n) = n /\ Lower(PathSuffix(n)) \in ALLOWED_EXTENSIONS})

\* Path.write_bytes
WriteFile(dir, name, content) ==
    [n \in DOMAIN dir \cup {name} |-> IF n = name THEN content ELSE dir[n]]

\* A faulty delete_markdown_file: the file is left where it is.
DeleteNothing(dir, name) == dir

\* delete_markdown_file: unlink when the file exists
delete_markdown_file(dir, name) == [n \in DOMAIN dir \ {name} |-> dir[n]]

-----------------------------------------------------------------------------
(* Rows and the CSV file.                                                  *)

CellTrue == <<"t", "r", "u", "e">>
CellFalse == <<"f", "a", "l", "s", "e">>

\* _bool_str
BoolStr(b) == IF b THEN CellTrue ELSE CellFalse

\* _parse_bool
ParseBool(value, default) ==
    IF value = None \/ value = <<>> THEN default
    ELSE Lower(Strip(value)) \in {<<"1">>, CellTrue, <<"y", "e", "s">>, <<"y">>}

\* `x or y` on an optional string
OrElse(x, y) == IF x = None \/ x = <<>> THEN y ELSE x

IndexRow(filename, title, description, is_public, date_uploaded, updated_at) ==
    [filename |-> filename, title |-> title, description |-> description,
     is_public |-> is_public, date_uploaded |-> date_uploaded, updated_at |-> updated_at]

\* One record of csv.DictReader -> IndexRow (lines 201-213).
RowOfCells(record, k) ==
    IndexRow(Strip(OrElse(record.filename, <<>>)),
             Strip(OrElse(record.title, <<>>)),
             Strip(OrElse(record.description, <<>>)),
             ParseBool(record.is_public, TRUE),
             Strip(OrElse(record.date_uploaded, TodayStr(k))),
             Strip(OrElse(record.updated_at, <<>>)))

\* The dictionary _write_rows hands to writer.writerow.
CellsOfRow(row) ==
    [filename |-> row.filename, title |-> row.title, description |-> row.description,
     is_public |-> BoolStr(row.is_public), date_uploaded |-> row.date_uploaded,
     updated_at |-> row.updated_at]

RECURSIVE ReadCells(_, _)
ReadCells(cells, k) ==
    IF cells = <<>> THEN <<>>
    ELSE IF Strip(OrElse(Head(cells).filename, <<>>)) = <<>> THEN ReadCells(Tail(cells), k)
    ELSE <<RowOfCells(Head(cells), k)>> \o ReadCells(Tail(cells), k)

\* _read_rows on a file content; k is the clock reading of the call.
ReadRows(file, k) == IF ~file.exists THEN <<>> ELSE ReadCells(file.cells, k)

\* The complete content _write_rows produces for `rows`.
WriteRows(rs) == File([i \in 1..Len(rs) |-> CellsOfRow(rs[i])])

-----------------------------------------------------------------------------
(* The list manipulations of the store operations.                         *)

\* position of the first row named f, 0 when there is none
RECURSIVE FirstIndex(_, _, _)
FirstIndex(rs, f, i) ==
    IF i > Len(rs) THEN 0 ELSE IF rs[i].filename = f THEN i ELSE FirstIndex(rs, f, i + 1)

\* A faulty upsert_row: the record of an existing filename is removed and the new
\* one appended.
UpsertRowsMoveToEnd(rs, row) ==
    Append(SelectSeq(rs, LAMBDA r : r.filename # row.filename), row)

\* upsert_row, lines 88-95
UpsertRows(rs, row) ==
    LET idx == FirstIndex(rs, row.filename, 1)
    IN  IF idx > 0 THEN [rs EXCEPT ![idx] = row] ELSE Append(rs, row)

\* A faulty delete_row: the filter is inverted.
DeleteRowsInverted(rs, f) == SelectSeq(rs, LAMBDA r : r.filename = f)

\* delete_row, line 100
DeleteRows(rs, f) == SelectSeq(rs, LAMBDA r : r.filename # f)

\* A faulty toggle_public: updated_at is refreshed outside the `if`.
ToggleRowsStampAll(rs, f, is_public, k) ==
    [i \in 1..Len(rs) |->
        IF rs[i].filename = f
        THEN [rs[i] EXCEPT !.is_public = is_public, !.updated_at = Timestamp(k)]
        ELSE [rs[i] EXCEPT !.updated_at = Timestamp(k)]]

\* toggle_public, lines 106-109
ToggleRows(rs, f, is_public, k) ==
    [i \in 1..Len(rs) |->
        IF rs[i].filename = f
        THEN [rs[i] EXCEPT !.is_public = is_public, !.updated_at = Timestamp(k)]
        ELSE rs[i]]

build_row(filename, title, description, is_public, date_uploaded, k) ==
    IndexRow(filename, OrElse(title, <<>>), OrElse(description, <<>>), is_public,
             OrElse(date_uploaded, TodayStr(k)), Timestamp(k))

\* new_files of sync_new_files, line 165
NewFiles(rs, listed) ==
    SelectSeq(listed, LAMBDA name : \A i \in 1..Len(rs) : rs[i].filename # name)

\* A faulty sync_new_files: the new rows are put in front of the table.
SyncRowsInFront(rs, listed, default_public, k) ==
    LET new == NewFiles(rs, listed)
    IN  [j \in 1..Len(new) |-> build_row(new[j], <<>>, <<>>, default_public, TodayStr(k), k)]
        \o rs

\* sync_new_files, lines 164-175
SyncRows(rs, listed, default_public, k) ==
    LET new == NewFiles(rs, listed)
    IN  rs \o [j \in 1..Len(new) |->
                  build_row(new[j], <<>>, <<>>, default_public, TodayStr(k), k)]

\* dict.get(key) of an update payload; a payload is a function on a subset of
\* {"title", "description"}
Get(payload, key) == IF key \in DOMAIN payload THEN payload[key] ELSE None

Truthy(x) == x # None /\ x # <<>>

\* A faulty update_missing_metadata: a field the update does not provide is cleared.
UpdateRowsAssignAll(rs, upd, k) ==
    [i \in 1..Len(rs) |->
        IF rs[i].filename \in DOMAIN upd
        THEN LET u == upd[rs[i].filename]
             IN  [rs[i] EXCEPT
                    !.title = IF Truthy(Get(u, "title")) THEN u["title"] ELSE <<>>,
                    !.description =
                        IF Truthy(Get(u, "description")) THEN u["description"] ELSE <<>>,
                    !.updated_at = Timestamp(k)]
        ELSE rs[i]]

\* A faulty update_missing_metadata: an update for a name without record makes a record.
UpdateRowsOrCreate(rs, upd, k) ==
    LET unknown == SortedSeq({f \in DOMAIN upd : \A i \in 1..Len(rs) : rs[i].filename # f})
    IN  [i \in 1..Len(rs) |->
            IF rs[i].filename \in DOMAIN upd
            THEN LET u == upd[rs[i].filename]
                 IN  [rs[i] EXCEPT
                        !.title = IF Truthy(Get(u, "title")) THEN u["title"] ELSE @,
                        !.description =
                            IF Truthy(Get(u, "description")) THEN u["description"] ELSE @,
                        !.updated_at = Timestamp(k)]
            ELSE rs[i]]
        \o [j \in 1..Len(unknown) |->
                build_row(unknown[j], Get(upd[unknown[j]], "title"), <<>>, FALSE, TodayStr(k), k)]

\* update_missing_metadata, lines 184-191
UpdateRows(rs, upd, k) ==
    [i \in 1..Len(rs) |->
        IF rs[i].filename \in DOMAIN upd
        THEN LET u == upd[rs[i].filename]
             IN  [rs[i] EXCEPT
                    !.title = IF Truthy(Get(u, "title")) THEN u["title"] ELSE @,
                    !.description =
                        IF Truthy(Get(u, "description")) THEN u["description"] ELSE @,
                    !.updated_at = Timestamp(k)]
        ELSE rs[i]]

\* get_row, lines 80-83: <<row>>, or <<>> for None
GetRow(rs, f) == LET i == FirstIndex(rs, f, 1) IN IF i > 0 THEN <<rs[i]>> ELSE <<>>

-----------------------------------------------------------------------------
(* The values the operations are called with.                              *)

fa == <<"a", ".", "m", "d">>
fb == <<"b", ".", "m", "d">>
\* a file copied into markdown_files/ by hand: " a.md"
fsp == <<" ", "a", ".", "m", "d">>
\* a name no record and no file has
fc == <<"c", ".", "m", "d">>

titleX == <<"X">>
titleY == <<"Y">>
descD == <<"D">>
descE == <<"d">>

\* Names the handlers pass to the store (sanitized by save_markdown_file).
StoreNames == {fa, fb}

\* Names of the files that are put into markdown_files/ from outside the application.
ExternalNames == {fb}

\* The rows upload_file builds (build_row on stripped form fields).
UpsertRowsIn ==
    {build_row(fa, titleX, descD, TRUE, TodayStr(1), 1),
     build_row(fa, <<>>, <<>>, FALSE, TodayStr(2), 2),
     build_row(fb, titleY, <<>>, TRUE, TodayStr(2), 2)}

\* payloads as _build_metadata_updates builds them: non-empty fields only
Payload(title, description) ==
    [key \in (IF title # <<>> THEN {"title"} ELSE {}) \cup
             (IF description # <<>> THEN {"description"} ELSE {}) |->
        IF key = "title" THEN title ELSE description]

NoUpdates == [n \in {} |-> Payload(<<>>, <<>>)]

UpdatesIn ==
    {NoUpdates,
     [n \in {fa, fc} |-> IF n = fa THEN Payload(titleY, <<>>) ELSE Payload(titleX, descD)],
     [n \in {fa, fb} |-> IF n = fa THEN Payload(<<>>, descE) ELSE Payload(titleX, descD)]}

NoRow == IndexRow(<<>>, <<>>, <<>>, FALSE, <<>>, <<>>)

Op(name, f, row, pub, upd, k) ==
    [name |-> name, f |-> f, row |-> row, pub |-> pub, upd |-> upd, k |-> k]

NoOp == Op("none", <<>>, NoRow, FALSE, NoUpdates, 1)

\* The locals of a request handler: the stored name of an upload, the `existing`
\* snapshot, the candidates still to visit, the updates and the error count of
\* _build_metadata_updates, the filenames _index_markdown_files still has to visit and
\* the status of the response.  History: the turns of the loop of
\* _build_metadata_updates, and the repository as the request found it.
NoRun == [filename |-> <<>>, existing |-> NoUpdates, todo |-> <<>>, updates |-> NoUpdates,
          errors |-> 0, toindex |-> <<>>, status |-> "none", visited |-> <<>>,
          before |-> <<>>, candidates |-> <<>>, new_files |-> <<>>, snapshot |-> <<>>]

\* The calls of the store's operations, with their arguments and the clock reading
\* of the call.
StoreOps ==
    {Op("upsert_row", r.filename, r, r.is_public, NoUpdates, 1) : r \in UpsertRowsIn}
    \cup {Op("delete_row", f, NoRow, FALSE, NoUpdates, 1) : f \in StoreNames}
    \cup {Op("toggle_public", fa, NoRow, FALSE, NoUpdates, 2),
          Op("toggle_public", fb, NoRow, TRUE, NoUpdates, 2)}
    \cup {Op("sync_new_files", <<>>, NoRow, b, NoUpdates, 2) : b \in BOOLEAN}
    \cup {Op("update_missing_metadata", <<>>, NoRow, FALSE, u, 2) : u \in UpdatesIn}
    \cup {Op("list_rows", <<>>, NoRow, FALSE, NoUpdates, 1)}

Mutating ==
    {"upsert_row", "delete_row", "toggle_public", "sync_new_files", "update_missing_metadata"}

\* Tables index.csv holds when the application starts: the empty table written by
\* ensure_directories, or one left by an earlier run.
InitTables ==
    {<<>>,
     <<build_row(fb, <<>>, descD, FALSE, TodayStr(1), 1),
       build_row(fa, titleX, <<>>, TRUE, TodayStr(1), 1)>>}

InitDirs == {[n \in {fa, fsp} |-> "ext"]}

\* SearchService built without a url (search_service.py 23-27): no client.
\* docs maps the id of each document of the engine's index to its is_public.
NoEngine == [client |-> FALSE, index_ready |-> FALSE, created |-> FALSE, docs |-> <<>>]

\* Optional[List[SearchResult]]: None, or a list
NotAvailable == [available |-> FALSE, list |-> <<>>]
Available(list) == [available |-> TRUE, list |-> list]

\* No search call made yet.  A reply holds the call and its arguments; what it returned:
\* `value` for a method of SearchService, `results` for _run_search; whether an
\* exception left it (raised); whether _fallback_search ran, with its locals `term` and
\* `matches` (of all documents, before the cut of line 172); and what the engine did:
\* whether client.search failed, and the hits it answered.
NoReply == [call |-> "none", query |-> <<>>, authenticated |-> FALSE, public_only |-> FALSE,
            value |-> NotAvailable, results |-> <<>>, raised |-> FALSE, fallback |-> FALSE,
            term |-> <<>>, matches |-> <<>>, failed |-> FALSE, answer |-> <<>>]

-----------------------------------------------------------------------------
(* The store's operations, step by step (index_store.py lines 72-110,      *)
(* 160-238).                                                               *)

\* What the operation makes of the rows it read.
Modified(o, rs, listed) ==
    CASE o.name = "upsert_row" -> UpsertRows(rs, o.row)
      [] o.name = "delete_row" -> DeleteRows(rs, o.f)
      [] o.name = "toggle_public" -> ToggleRows(rs, o.f, o.pub, o.k)
      [] o.name = "sync_new_files" -> SyncRows(rs, listed, o.pub, o.k)
      [] o.name = "update_missing_metadata" -> UpdateRows(rs, o.upd, o.k)
      [] OTHER -> rs

\* A process issues a call.  update_missing_metadata returns at once on an empty
\* map (line 180); sync_new_files lists the directory before it takes the lock.
Begin(p, o) ==
    /\ pc[p] = "idle"
    /\ nops < MaxOps
    /\ nops' = nops + 1
    /\ op' = [op EXCEPT ![p] = o]
    /\ pc' = [pc EXCEPT ![p] =
                IF o.name = "sync_new_files" THEN "listdir"
                ELSE IF o.name = "update_missing_metadata" /\ DOMAIN o.upd = {} THEN "return"
                ELSE "acquire"]
    /\ rows' = [rows EXCEPT ![p] = <<>>]
    /\ readRows' = [readRows EXCEPT ![p] = <<>>]
    /\ listing' = [listing EXCEPT ![p] = <<>>]
    /\ UNCHANGED <<engine, reply>>
    /\ UNCHANGED <<index, tmp, lock, files, run, serial, complete>>

\* line 161
ListDir(p) ==
    /\ pc[p] = "listdir"
    /\ listing' = [listing EXCEPT ![p] = list_markdown_files(files)]
    /\ pc' = [pc EXCEPT ![p] = "acquire"]
    /\ UNCHANGED <<engine, reply>>
    /\ UNCHANGED <<index, tmp, lock, files, op, rows, readRows, run, nops, serial,
                   complete>>

\* A faulty store operation: the with block is entered without waiting for the lock.
AcquireNoWait(p) ==
    /\ pc[p] = "acquire"
    /\ lock' = p
    /\ pc' = [pc EXCEPT ![p] = "read"]
    /\ UNCHANGED <<engine, reply>>
    /\ UNCHANGED <<index, tmp, files, op, rows, readRows, listing, run, nops, serial,
                   complete>>

\* with FileLock(...): blocks until no other process holds the lock
Acquire(p) ==
    /\ pc[p] = "acquire"
    /\ lock = NoProc
    /\ lock' = p
    /\ pc' = [pc EXCEPT ![p] = "read"]
    /\ UNCHANGED <<engine, reply>>
    /\ UNCHANGED <<index, tmp, files, op, rows, readRows, listing, run, nops, serial,
                   complete>>

\* _read_rows and the change of the list in memory
ReadModify(p) ==
    /\ pc[p] = "read"
    /\ LET rs == ReadRows(index, op[p].k)
       IN  /\ readRows' = [readRows EXCEPT ![p] = rs]
           /\ rows' = [rows EXCEPT ![p] = Modified(op[p], rs, listing[p])]
    /\ pc' = [pc EXCEPT ![p] = IF op[p].name \in Mutating THEN "open" ELSE "release"]
    /\ UNCHANGED <<engine, reply>>
    /\ UNCHANGED <<index, tmp, lock, files, op, listing, run, nops, serial, complete>>

\* A faulty _write_rows: index.csv itself is opened for writing, which truncates it.
OpenTmpOnTarget(p) ==
    /\ pc[p] = "open"
    /\ tmp' = [tmp EXCEPT ![p] = File(<<>>)]
    /\ index' = File(<<>>)
    /\ pc' = [pc EXCEPT ![p] = "write"]
    /\ UNCHANGED <<engine, reply>>
    /\ UNCHANGED <<lock, files, op, rows, readRows, listing, run, nops, serial,
                   complete>>

\* _write_rows: the temporary file is created and the header written
OpenTmp(p) ==
    /\ pc[p] = "open"
    /\ tmp' = [tmp EXCEPT ![p] = File(<<>>)]
    /\ pc' = [pc EXCEPT ![p] = "write"]
    /\ UNCHANGED <<engine, reply>>
    /\ UNCHANGED <<index, lock, files, op, rows, readRows, listing, run, nops, serial,
                   complete>>

\* A faulty _write_rows: the rows are written into index.csv itself.
WriteRowInPlace(p) ==
    /\ pc[p] = "write"
    /\ Len(tmp[p].cells) < Len(rows[p])
    /\ tmp' = [tmp EXCEPT ![p] =
                 File(Append(tmp[p].cells, CellsOfRow(rows[p][Len(tmp[p].cells) + 1])))]
    /\ index' = tmp'[p]
    /\ UNCHANGED <<engine, reply>>
    /\ UNCHANGED <<lock, files, pc, op, rows, readRows, listing, run, nops,
                   serial, complete>>

\* _write_rows: writer.writerow for the next row
WriteRow(p) ==
    /\ pc[p] = "write"
    /\ Len(tmp[p].cells) < Len(rows[p])
    /\ tmp' = [tmp EXCEPT ![p] =
                 File(Append(tmp[p].cells, CellsOfRow(rows[p][Len(tmp[p].cells) + 1])))]
    /\ UNCHANGED <<engine, reply>>
    /\ UNCHANGED <<index, lock, files, pc, op, rows, readRows, listing, run, nops,
                   serial, complete>>

\* _write_rows: os.replace(tmp_file.name, index_path)
Replace(p) ==
    /\ pc[p] = "write"
    /\ Len(tmp[p].cells) = Len(rows[p])
    /\ index' = tmp[p]
    /\ tmp' = [tmp EXCEPT ![p] = NoFile]
    /\ complete' = WriteRows(rows[p])
    /\ serial' = WriteRows(Modified(op[p], ReadRows(serial, op[p].k), listing[p]))
    /\ pc' = [pc EXCEPT ![p] = "release"]
    /\ UNCHANGED <<engine, reply>>
    /\ UNCHANGED <<lock, files, op, rows, readRows, listing, run, nops>>

\* A faulty end of the with block: the call returns and the lock is kept.
ReleaseKeepsLock(p) ==
    /\ pc[p] = "release"
    /\ pc' = [pc EXCEPT ![p] = "idle"]
    /\ op' = [op EXCEPT ![p] = NoOp]
    /\ rows' = [rows EXCEPT ![p] = <<>>]
    /\ readRows' = [readRows EXCEPT ![p] = <<>>]
    /\ listing' = [listing EXCEPT ![p] = <<>>]
    /\ UNCHANGED <<engine, reply>>
    /\ UNCHANGED <<index, tmp, lock, files, run, nops, serial, complete>>

\* the end of the with block
Release(p) ==
    /\ pc[p] = "release"
    /\ lock' = IF lock = p THEN NoProc ELSE lock
    /\ pc' = [pc EXCEPT ![p] = "idle"]
    /\ op' = [op EXCEPT ![p] = NoOp]
    /\ rows' = [rows EXCEPT ![p] = <<>>]
    /\ readRows' = [readRows EXCEPT ![p] = <<>>]
    /\ listing' = [listing EXCEPT ![p] = <<>>]
    /\ UNCHANGED <<engine, reply>>
    /\ UNCHANGED <<index, tmp, files, run, nops, serial, complete>>

\* line 181
Return(p) ==
    /\ pc[p] = "return"
    /\ pc' = [pc EXCEPT ![p] = "idle"]
    /\ op' = [op EXCEPT ![p] = NoOp]
    /\ UNCHANGED <<engine, reply>>
    /\ UNCHANGED <<index, tmp, lock, files, rows, readRows, listing, run, nops,
                   serial, complete>>

\* The process dies in the middle of a call: its memory is gone, the operating
\* system drops its lock, its temporary file stays as it is.
Crash(p) ==
    /\ pc[p] \in {"listdir", "acquire", "read", "open", "write", "release"}
    /\ lock' = IF lock = p THEN NoProc ELSE lock
    /\ pc' = [pc EXCEPT ![p] =
                IF pc[p] = "write" /\ Len(tmp[p].cells) < Len(rows[p])
                THEN "crashed_writing" ELSE "crashed"]
    /\ op' = [op EXCEPT ![p] = NoOp]
    /\ rows' = [rows EXCEPT ![p] = <<>>]
    /\ readRows' = [readRows EXCEPT ![p] = <<>>]
    /\ listing' = [listing EXCEPT ![p] = <<>>]
    /\ UNCHANGED <<engine, reply>>
    /\ UNCHANGED <<index, tmp, files, run, nops, serial, complete>>

\* A file is copied into markdown_files/ from outside the application.
PlaceFile(n) ==
    /\ ~Exists(files, n)
    /\ files' = WriteFile(files, n, "ext")
    /\ UNCHANGED <<engine, reply>>
    /\ UNCHANGED <<index, tmp, lock, pc, op, rows, readRows, listing, run, nops,
                   serial, complete>>

Init ==
    /\ \E t \in InitTables : index = WriteRows(t) /\ serial = WriteRows(t)
                             /\ complete = WriteRows(t)
    /\ files \in InitDirs
    /\ tmp = [p \in Procs |-> NoFile]
    /\ lock = NoProc
    /\ pc = [p \in Procs |-> "idle"]
    /\ op = [p \in Procs |-> NoOp]
    /\ rows = [p \in Procs |-> <<>>]
    /\ readRows = [p \in Procs |-> <<>>]
    /\ listing = [p \in Procs |-> <<>>]
    /\ run = [p \in Procs |-> NoRun]
    /\ nops = 0
    /\ engine = NoEngine
    /\ reply = NoReply

Next ==
    \/ \E p \in Procs : \E o \in StoreOps : Begin(p, o)
    \/ \E p \in Procs : ListDir(p)
    \/ \E p \in Procs : Acquire(p)
    \/ \E p \in Procs : ReadModify(p)
    \/ \E p \in Procs : OpenTmp(p)
    \/ \E p \in Procs : WriteRow(p)
    \/ \E p \in Procs : Replace(p)
    \/ \E p \in Procs : Release(p)
    \/ \E p \in Procs : Return(p)
    \/ \E p \in Procs : Crash(p)
    \/ \E n \in ExternalNames : PlaceFile(n)

Spec == Init /\ [][Next]_vars

-----------------------------------------------------------------------------
(* The store under fair scheduling: a process that can take a step of its  *)
(* call takes it, and a process that waits for the lock gets it if the     *)
(* lock is free again and again (FileLock polls, filelock's acquire).  No  *)
(* process dies while it holds the lock.                                   *)

\* the calls made: writes of three kinds, a call that returns at once, and a read
FairOps ==
    {Op("upsert_row", fa, build_row(fa, titleY, <<>>, FALSE, TodayStr(1), 1), FALSE,
        NoUpdates, 1),
     Op("delete_row", fb, NoRow, FALSE, NoUpdates, 1),
     Op("sync_new_files", <<>>, NoRow, TRUE, NoUpdates, 2),
     Op("update_missing_metadata", <<>>, NoRow, FALSE, NoUpdates, 2),
     Op("list_rows", <<>>, NoRow, FALSE, NoUpdates, 1)}

\* _write_rows: os.replace(tmp_file.name, index_path); the history of the writes
\* (serial, complete) is not kept here
ReplaceFile(p) ==
    /\ pc[p] = "write"
    /\ Len(tmp[p].cells) = Len(rows[p])
    /\ index' = tmp[p]
    /\ tmp' = [tmp EXCEPT ![p] = NoFile]
    /\ pc' = [pc EXCEPT ![p] = "release"]
    /\ UNCHANGED <<engine, reply>>
    /\ UNCHANGED <<lock, files, op, rows, readRows, listing, run, nops, serial, complete>>

\* a step of the call of p other than taking the lock
Step(p) ==
    \/ ListDir(p)
    \/ ReadModify(p)
    \/ OpenTmp(p)
    \/ WriteRow(p)
    \/ ReplaceFile(p)
    \/ Release(p)
    \/ Return(p)

\* The process dies while it does not hold the lock.
CrashOutside(p) == lock # p /\ Crash(p)

NextFair ==
    \/ \E p \in Procs : \E o \in FairOps : Begin(p, o)
    \/ \E p \in Procs : Acquire(p)
    \/ \E p \in Procs : Step(p)
    \/ \E p \in Procs : CrashOutside(p)

SpecFair ==
    /\ Init
    /\ [][NextFair]_vars
    /\ \A p \in Procs : WF_vars(Step(p)) /\ SF_vars(Acquire(p))

-----------------------------------------------------------------------------
(* Properties of the store under concurrent calls.                         *)

InCycle == {"read", "open", "write", "release"}

\* C1: every operation runs its read / modify / replace cycle holding the lock, and
\* the index file always equals the file that the finished operations, applied one
\* at a time in the order of their os.replace, produce: no effect is lost.
C1_Serializable ==
    /\ \A p \in Procs : pc[p] \in InCycle => lock = p
    /\ index = serial

\* Witness of C1: one process has replaced the file while another, with a mutating
\* call of its own, waits for the lock.
C1_Witness ==
    \E p, q \in Procs :
        /\ p # q
        /\ pc[p] = "release" /\ op[p].name \in Mutating /\ index # WriteRows(readRows[p])
        /\ pc[q] = "acquire" /\ op[q].name \in Mutating

\* C4: index.csv always holds the table of the last finished _write_rows (at first
\* the initial table), and what list_rows read is that table.
C4_NoPartialTable ==
    /\ index = complete
    /\ \A p \in Procs :
         pc[p] = "release" /\ op[p].name = "list_rows"
            => readRows[p] = ReadRows(complete, op[p].k)

\* Witness of C4: list_rows has read the table while another process has a half
\* written temporary file.
C4_Witness ==
    \E p, q \in Procs :
        /\ pc[p] = "release" /\ op[p].name = "list_rows" /\ Len(readRows[p]) > 0
        /\ tmp[q].exists /\ pc[q] = "crashed_writing"

\* C5: when a process dies in _write_rows before os.replace, index.csv is left
\* unchanged, it still reads as the table the process had read, and it is a
\* completely written table.
C5_CrashKeepsTable ==
    [][\A p \in Procs :
          pc[p] \in {"open", "write"} /\ pc'[p] \in {"crashed", "crashed_writing"}
             => /\ index' = index
                /\ ReadRows(index', op[p].k) = readRows[p]
                /\ index' = complete']_vars

\* Witness of C5: a process died with some but not all rows in its temporary file.
C5_Witness ==
    \E p \in Procs :
        pc[p] = "crashed_writing" /\ tmp[p].exists /\ Len(tmp[p].cells) > 0
        /\ tmp[p] # index

FileNamesOf(rs) == [i \in 1..Len(rs) |-> rs[i].filename]

HasRecord(rs, f) == \E i \in 1..Len(rs) : rs[i].filename = f

\* the table a reader of the store gets now (dates are never missing in it)
Table == ReadRows(index, 1)

\* p has replaced the file in a call of `name` and has not left the with block
Committed(p, name) == pc[p] = "release" /\ op[p].name = name

\* C6 as claimed: no two records read back share a filename, and an upsert_row of a
\* filename that was present leaves the length of the table unchanged.
C6_UniqueFilenames ==
    /\ \A i, j \in 1..Len(Table) : Table[i].filename = Table[j].filename => i = j
    /\ \A p \in Procs :
         Committed(p, "upsert_row") /\ HasRecord(readRows[p], op[p].f)
            => Len(Table) = Len(readRows[p])

\* C7: upsert_row(r) appends r when no record has r's filename and otherwise puts r
\* in the place of the first record with it; every other record keeps its place and
\* its values, and the file holds the new table before the lock is released.
C7_UpsertFrame ==
    \A p \in Procs :
        Committed(p, "upsert_row") =>
            LET before == readRows[p]
                r == op[p].row
            IN  IF HasRecord(before, r.filename)
                THEN /\ Len(Table) = Len(before)
                     /\ \E j \in 1..Len(before) :
                          /\ before[j].filename = r.filename
                          /\ \A i \in 1..(j - 1) : before[i].filename # r.filename
                          /\ Table[j] = r
                          /\ \A i \in 1..Len(before) : i # j => Table[i] = before[i]
                ELSE /\ Len(Table) = Len(before) + 1
                     /\ Table[Len(Table)] = r
                     /\ \A i \in 1..Len(before) : Table[i] = before[i]

\* Witness of C7: an upsert_row replaced the first of several records.
C7_Witness ==
    \E p \in Procs :
        /\ Committed(p, "upsert_row")
        /\ Len(readRows[p]) >= 2
        /\ readRows[p][1].filename = op[p].f
        /\ readRows[p][1] # op[p].row

\* number of records named f among the first n of rs
RECURSIVE CountNamed(_, _, _)
CountNamed(rs, f, n) ==
    IF n = 0 THEN 0
    ELSE CountNamed(rs, f, n - 1) + (IF rs[n].filename = f THEN 1 ELSE 0)

\* C8: after delete_row(f) no record is named f, every other record is kept with
\* its values in the same order, and when f was absent the table is the same as
\* before (so a second delete_row(f) changes nothing).
C8_DeleteFrame ==
    \A p \in Procs :
        Committed(p, "delete_row") =>
            LET before == readRows[p]
                f == op[p].f
            IN  /\ ~HasRecord(Table, f)
                /\ Len(Table) = Len(before) - CountNamed(before, f, Len(before))
                /\ \A i \in 1..Len(before) :
                     before[i].filename # f => Table[i - CountNamed(before, f, i)] = before[i]
                /\ ~HasRecord(before, f) => Table = before

\* Witness of C8: delete_row removed a record and kept another.
C8_Witness ==
    \E p \in Procs :
        /\ Committed(p, "delete_row")
        /\ HasRecord(readRows[p], op[p].f)
        /\ Len(Table) >= 1

\* C9: toggle_public(f, v) sets is_public to v and refreshes updated_at in the
\* records named f and changes nothing else: no other field, no other record, no
\* record added or removed; with f absent the table is unchanged.
C9_ToggleFrame ==
    \A p \in Procs :
        Committed(p, "toggle_public") =>
            LET before == readRows[p]
                f == op[p].f
            IN  /\ Len(Table) = Len(before)
                /\ \A i \in 1..Len(before) :
                     IF before[i].filename = f
                     THEN /\ Table[i].filename = f
                          /\ Table[i].title = before[i].title
                          /\ Table[i].description = before[i].description
                          /\ Table[i].date_uploaded = before[i].date_uploaded
                          /\ Table[i].is_public = op[p].pub
                          /\ Table[i].updated_at = Timestamp(op[p].k)
                     ELSE Table[i] = before[i]
                /\ ~HasRecord(before, f) => Table = before

\* Witness of C9: toggle_public changed the visibility of a record of a table with
\* another record.
C9_Witness ==
    \E p \in Procs :
        /\ Committed(p, "toggle_public")
        /\ Len(readRows[p]) >= 2
        /\ \E i \in 1..Len(readRows[p]) :
             readRows[p][i].filename = op[p].f /\ readRows[p][i].is_public # op[p].pub

\* C10 as claimed: sync_new_files(d) leaves the records it found in place and
\* appends, for every listed file without a record, one record named as the file,
\* with empty title and description, is_public = d and today's date.
C10_SyncFrame ==
    \A p \in Procs :
        Committed(p, "sync_new_files") =>
            LET before == readRows[p]
                new == NewFiles(before, listing[p])
            IN  /\ Len(Table) = Len(before) + Len(new)
                /\ \A i \in 1..Len(before) : Table[i] = before[i]
                /\ \A name \in Range(listing[p]) :
                     Cardinality({i \in 1..Len(Table) : Table[i].filename = name}) = 1
                /\ \A j \in 1..Len(new) :
                     LET created == Table[Len(before) + j]
                     IN  /\ created.filename = new[j]
                         /\ created.title = <<>> /\ created.description = <<>>
                         /\ created.is_public = op[p].pub
                         /\ created.date_uploaded = TodayStr(op[p].k)

\* C11: update_missing_metadata(updates) sets, in every record whose filename is a key
\* of updates, the title and the description the update provides non-empty, refreshes
\* its updated_at and keeps its other fields; a record whose filename is no key keeps
\* every field; a key without a record creates none.
C11_UpdateFrame ==
    \A p \in Procs :
        Committed(p, "update_missing_metadata") =>
            LET before == readRows[p]
                upd == op[p].upd
            IN  /\ Len(Table) = Len(before)
                /\ \A i \in 1..Len(before) :
                     IF before[i].filename \in DOMAIN upd
                     THEN LET u == upd[before[i].filename]
                          IN  /\ Table[i].filename = before[i].filename
                              /\ Table[i].title =
                                    IF "title" \in DOMAIN u /\ u["title"] # <<>>
                                    THEN u["title"] ELSE before[i].title
                              /\ Table[i].description =
                                    IF "description" \in DOMAIN u /\ u["description"] # <<>>
                                    THEN u["description"] ELSE before[i].description
                              /\ Table[i].is_public = before[i].is_public
                              /\ Table[i].date_uploaded = before[i].date_uploaded
                              /\ Table[i].updated_at = Timestamp(op[p].k)
                     ELSE Table[i] = before[i]

\* Witness of C11: an update with a title only has changed one record, next to a record
\* that is no key of the update, and one of its keys has no record.
C11_Witness ==
    \E p \in Procs :
        /\ Committed(p, "update_missing_metadata")
        /\ \E f \in DOMAIN op[p].upd : ~HasRecord(readRows[p], f)
        /\ \E i, j \in 1..Len(readRows[p]) :
             /\ readRows[p][i].filename \in DOMAIN op[p].upd
             /\ DOMAIN op[p].upd[readRows[p][i].filename] = {"title"}
             /\ readRows[p][i].description # <<>>
             /\ Table[i].title # readRows[p][i].title
             /\ readRows[p][j].filename \notin DOMAIN op[p].upd

\* C29: a write keeps the records in their order.  After upsert_row, toggle_public,
\* update_missing_metadata, sync_new_files or delete_row the records that were there
\* (all of them, but for delete_row those named f) come first, with their filenames in
\* the order list_rows gave before, and only upsert_row of a new filename and
\* sync_new_files add records, behind them.
C29_StableOrder ==
    \A p \in Procs :
        pc[p] = "release" /\ op[p].name \in Mutating =>
            LET before == FileNamesOf(readRows[p])
                kept == IF op[p].name = "delete_row"
                        THEN SelectSeq(before, LAMBDA n : n # op[p].f) ELSE before
                after == FileNamesOf(Table)
            IN  /\ Len(after) >= Len(kept)
                /\ SubSeq(after, 1, Len(kept)) = kept
                /\ Len(after) > Len(kept) =>
                     \/ op[p].name = "sync_new_files"
                     \/ /\ op[p].name = "upsert_row"
                        /\ ~HasRecord(readRows[p], op[p].f)
                        /\ Len(after) = Len(kept) + 1

\* Witness of C29: sync_new_files has added a record behind two records it found.
C29_Witness ==
    \E p \in Procs :
        /\ Committed(p, "sync_new_files")
        /\ Len(readRows[p]) = 2
        /\ readRows[p][1].filename # readRows[p][2].filename
        /\ Len(Table) > 2

\* where the call of p is while it holds the lock
Holding == {"read", "open", "write", "release"}

Dead == {"crashed", "crashed_writing"}

\* C31: under fair scheduling, and with no process dying while it holds the lock,
\* every call that asks for the lock gets it, unless its process dies waiting, and
\* every call that holds the lock finishes and releases it.  No call asks for the
\* lock while it holds it, the holder of the lock always has a step to take, and the
\* lock is free whenever no call holds it.
C31_LockAcquiredAndReleased ==
    /\ \A p \in Procs : (pc[p] = "acquire") ~> (lock = p \/ pc[p] \in Dead)
    /\ \A p \in Procs : (lock = p) ~> (lock = NoProc /\ pc[p] = "idle")
    /\ [](\A p \in Procs : pc[p] = "acquire" => lock # p)
    /\ [](\A p \in Procs : lock = p <=> pc[p] \in Holding)
    /\ [](\A p \in Procs : lock = p => ENABLED Step(p))

\* Witness of C31: a call waits for the lock while the other process holds it.
C31_Witness ==
    \E p, q \in Procs :
        /\ pc[p] = "acquire"
        /\ lock = q
        /\ q # p
        /\ pc[q] = "write"

-----------------------------------------------------------------------------
(* The request handlers of main.py.  A call of a store operation is one    *)
(* step here: it runs under the lock from its read to its os.replace.      *)

MaxRequests == 2

\* The form of a request: the uploaded file's name, the title and description
\* fields, the visibility and the clock reading.
Request(name, f, title, description, pub, k) ==
    Op(name, f, [NoRow EXCEPT !.title = title, !.description = description], pub,
       NoUpdates, k)

Requests ==
    {Request("upload_file", fa, <<>>, <<>>, TRUE, 1),
     Request("upload_file", <<"a", ".", "M", "D">>, <<"X", " ">>, <<>>, TRUE, 1),
     Request("upload_file", <<"a", ".", "t">>, <<>>, <<>>, TRUE, 1)}
    \cup {Request("process_markdowns", <<>>, <<>>, <<>>, FALSE, 2),
          Request("update_metadata", <<>>, <<>>, <<>>, FALSE, 2),
          Request("toggle_visibility", fa, <<>>, <<>>, FALSE, 2),
          Request("delete_file", fa, <<>>, <<>>, FALSE, 2)}

\* What OpenAIService.generate_metadata returns: <<>> for None, or <<dict>>.
GeneratedIn ==
    {<<>>,
     <<[title |-> titleY, description |-> descE]>>,
     <<[title |-> <<"Z">>, description |-> <<>>]>>}

\* The bytes process p uploads.
ContentOf(p) == p

\* existing.get(filename, {})
ExistingOf(existing, f) ==
    IF f \in DOMAIN existing THEN existing[f] ELSE [title |-> <<>>, description |-> <<>>]

\* {row.filename: {"title": row.title, "description": row.description} for row in rows}
ExistingMap(rs) ==
    [f \in Range(FileNamesOf(rs)) |->
        LET i == CHOOSE j \in 1..Len(rs) :
                    rs[j].filename = f /\ \A l \in (j + 1)..Len(rs) : rs[l].filename # f
        IN  [title |-> rs[i].title, description |-> rs[i].description]]

\* [row.filename for row in rows if not row.title or not row.description]
MissingOf(rs) ==
    FileNamesOf(SelectSeq(rs, LAMBDA r : r.title = <<>> \/ r.description = <<>>))

\* A faulty _build_metadata_updates: every generated field is proposed.
BuildPayloadAll(generated, entry) ==
    Payload(Strip(generated.title), Strip(generated.description))

\* The payload of one file, lines 123-129.
BuildPayload(generated, entry) ==
    Payload(IF entry.title = <<>> THEN Strip(generated.title) ELSE <<>>,
            IF entry.description = <<>> THEN Strip(generated.description) ELSE <<>>)

\* updates[filename] = payload
WithUpdate(upd, f, payload) ==
    [n \in DOMAIN upd \cup {f} |-> IF n = f THEN payload ELSE upd[n]]

\* A store operation as one step of the caller.
StoreCall(o, listed) ==
    /\ lock = NoProc
    /\ index' = WriteRows(Modified(o, ReadRows(index, o.k), listed))
    /\ serial' = index'
    /\ complete' = index'

HandlerStart(name) ==
    CASE name = "upload_file" -> "save"
      [] name = "process_markdowns" -> "listdir"
      [] name = "update_metadata" -> "snapshot"
      [] name = "toggle_visibility" -> "toggle"
      [] OTHER -> "unlink"

\* A request arrives at a worker process.
Receive(p, r) ==
    /\ pc[p] = "idle"
    /\ nops < MaxRequests
    /\ nops' = nops + 1
    /\ op' = [op EXCEPT ![p] = r]
    /\ run' = [run EXCEPT ![p] = NoRun]
    /\ pc' = [pc EXCEPT ![p] = HandlerStart(r.name)]
    /\ UNCHANGED <<engine, reply>>
    /\ UNCHANGED <<index, tmp, lock, files, rows, readRows, listing, serial, complete>>

\* upload_file: sanitize_filename and ensure_unique_filename (main.py 342-347,
\* index_store.py 125-126)
UploadSave(p) ==
    /\ pc[p] = "save"
    /\ LET sanitized == sanitize_filename(op[p].f)
       IN  IF sanitized = ValueError
           THEN /\ pc' = [pc EXCEPT ![p] = "respond"]
                /\ run' = [run EXCEPT ![p].errors = 1]
           ELSE /\ pc' = [pc EXCEPT ![p] = "write_bytes"]
                /\ run' = [run EXCEPT ![p].filename = ensure_unique_filename(files, sanitized)]
    /\ UNCHANGED <<engine, reply>>
    /\ UNCHANGED <<index, tmp, lock, files, op, rows, readRows, listing, nops, serial,
                   complete>>

\* upload_file: path.write_bytes(content) (index_store.py 127-128)
UploadWriteBytes(p) ==
    /\ pc[p] = "write_bytes"
    /\ files' = WriteFile(files, run[p].filename, ContentOf(p))
    /\ pc' = [pc EXCEPT ![p] = "upsert"]
    /\ UNCHANGED <<engine, reply>>
    /\ UNCHANGED <<index, tmp, lock, op, rows, readRows, listing, run, nops, serial,
                   complete>>

\* upload_file: build_row, upsert_row and the `existing` of the new row (349-359)
UploadUpsert(p) ==
    /\ pc[p] = "upsert"
    /\ LET row == build_row(run[p].filename, Strip(op[p].row.title),
                            Strip(op[p].row.description), op[p].pub, TodayStr(op[p].k),
                            op[p].k)
       IN  /\ StoreCall(Op("upsert_row", row.filename, row, row.is_public, NoUpdates,
                           op[p].k), <<>>)
           /\ run' = [run EXCEPT
                        ![p].existing =
                            [f \in {row.filename} |->
                                [title |-> row.title, description |-> row.description]],
                        ![p].todo = <<row.filename>>]
    /\ pc' = [pc EXCEPT ![p] = "enrich"]
    /\ UNCHANGED <<engine, reply>>
    /\ UNCHANGED <<tmp, lock, files, op, rows, readRows, listing, nops>>

\* process_markdowns: list_markdown_files inside sync_new_files (index_store.py 161)
ProcessListDir(p) ==
    /\ pc[p] = "listdir"
    /\ listing' = [listing EXCEPT ![p] = list_markdown_files(files)]
    /\ pc' = [pc EXCEPT ![p] = "sync"]
    /\ UNCHANGED <<engine, reply>>
    /\ UNCHANGED <<index, tmp, lock, files, op, rows, readRows, run, nops, serial,
                   complete>>

\* process_markdowns: the locked part of sync_new_files; listing[p] becomes new_files
ProcessSync(p) ==
    /\ pc[p] = "sync"
    /\ StoreCall(Op("sync_new_files", <<>>, NoRow, FALSE, NoUpdates, op[p].k), listing[p])
    /\ listing' = [listing EXCEPT ![p] = NewFiles(ReadRows(index, op[p].k), listing[p])]
    /\ pc' = [pc EXCEPT ![p] = "snapshot"]
    /\ UNCHANGED <<engine, reply>>
    /\ UNCHANGED <<tmp, lock, files, op, rows, readRows, run, nops>>

\* process_markdowns 376-379 and update_metadata 423-425: list_rows, `existing` and
\* the candidates
Snapshot(p) ==
    /\ pc[p] = "snapshot"
    /\ lock = NoProc
    /\ LET rs == ReadRows(index, op[p].k)
       IN  /\ run' = [run EXCEPT
                        ![p].existing = ExistingMap(rs),
                        ![p].todo =
                            IF op[p].name = "process_markdowns"
                            THEN SortedSeq(Range(listing[p]) \cup Range(MissingOf(rs)))
                            ELSE MissingOf(rs)]
    /\ listing' = [listing EXCEPT ![p] = <<>>]
    /\ pc' = [pc EXCEPT ![p] = "enrich"]
    /\ UNCHANGED <<engine, reply>>
    /\ UNCHANGED <<index, tmp, lock, files, op, rows, readRows, nops, serial, complete>>

\* _build_metadata_updates: one turn of its loop, with the answer of the summarizer
EnrichOne(p, generated) ==
    /\ pc[p] = "enrich"
    /\ run[p].todo # <<>>
    /\ LET filename == Head(run[p].todo)
           payload == BuildPayload(generated[1], ExistingOf(run[p].existing, filename))
       IN  run' = [run EXCEPT
                     ![p].todo = Tail(@),
                     ![p].errors =
                         IF ~Exists(files, filename) \/ generated = <<>> THEN @ + 1 ELSE @,
                     ![p].updates =
                         IF Exists(files, filename) /\ generated # <<>> /\ DOMAIN payload # {}
                         THEN WithUpdate(@, filename, payload) ELSE @]
    /\ UNCHANGED <<engine, reply>>
    /\ UNCHANGED <<index, tmp, lock, files, pc, op, rows, readRows, listing, nops, serial,
                   complete>>

\* store.update_missing_metadata(updates) after the loop
ApplyUpdates(p) ==
    /\ pc[p] = "enrich"
    /\ run[p].todo = <<>>
    /\ IF DOMAIN run[p].updates = {}
       THEN UNCHANGED <<index, serial, complete>>
       ELSE StoreCall(Op("update_missing_metadata", <<>>, NoRow, FALSE, run[p].updates,
                         op[p].k), <<>>)
    /\ pc' = [pc EXCEPT ![p] = "respond"]
    /\ UNCHANGED <<engine, reply>>
    /\ UNCHANGED <<tmp, lock, files, op, rows, readRows, listing, run, nops>>

\* toggle_visibility: store.toggle_public (401)
ToggleVisibility(p) ==
    /\ pc[p] = "toggle"
    /\ StoreCall(Op("toggle_public", op[p].f, NoRow, op[p].pub, NoUpdates, op[p].k), <<>>)
    /\ pc' = [pc EXCEPT ![p] = "respond"]
    /\ UNCHANGED <<engine, reply>>
    /\ UNCHANGED <<tmp, lock, files, op, rows, readRows, listing, run, nops>>

\* delete_file: store.delete_markdown_file (411)
DeleteUnlink(p) ==
    /\ pc[p] = "unlink"
    /\ files' = delete_markdown_file(files, op[p].f)
    /\ pc' = [pc EXCEPT ![p] = "delete_row"]
    /\ UNCHANGED <<engine, reply>>
    /\ UNCHANGED <<index, tmp, lock, op, rows, readRows, listing, run, nops, serial,
                   complete>>

\* delete_file: store.delete_row (412)
DeleteRecord(p) ==
    /\ pc[p] = "delete_row"
    /\ StoreCall(Op("delete_row", op[p].f, NoRow, FALSE, NoUpdates, op[p].k), <<>>)
    /\ pc' = [pc EXCEPT ![p] = "respond"]
    /\ UNCHANGED <<engine, reply>>
    /\ UNCHANGED <<tmp, lock, files, op, rows, readRows, listing, run, nops>>

\* The handler returns its redirect; the worker is free again.
Respond(p) ==
    /\ pc[p] = "respond"
    /\ pc' = [pc EXCEPT ![p] = "idle"]
    /\ op' = [op EXCEPT ![p] = NoOp]
    /\ run' = [run EXCEPT ![p] = NoRun]
    /\ UNCHANGED <<engine, reply>>
    /\ UNCHANGED <<index, tmp, lock, files, rows, readRows, listing, nops, serial,
                   complete>>

\* The application starts on an empty repository, or on one an earlier run left.
InitApp ==
    /\ \E i \in 1..2 :
         /\ index = WriteRows(IF i = 1 THEN <<>>
                              ELSE <<build_row(fb, <<>>, descD, FALSE, TodayStr(1), 1),
                                     build_row(fa, titleX, descD, TRUE, TodayStr(1), 1)>>)
         /\ files = IF i = 1 THEN [n \in {} |-> "ext"] ELSE [n \in {fa, fb} |-> "ext"]
    /\ serial = index
    /\ complete = index
    /\ tmp = [p \in Procs |-> NoFile]
    /\ lock = NoProc
    /\ pc = [p \in Procs |-> "idle"]
    /\ op = [p \in Procs |-> NoOp]
    /\ rows = [p \in Procs |-> <<>>]
    /\ readRows = [p \in Procs |-> <<>>]
    /\ listing = [p \in Procs |-> <<>>]
    /\ run = [p \in Procs |-> NoRun]
    /\ nops = 0
    /\ engine = NoEngine
    /\ reply = NoReply

NextApp ==
    \/ \E p \in Procs : \E r \in Requests : Receive(p, r)
    \/ \E p \in Procs : UploadSave(p)
    \/ \E p \in Procs : UploadWriteBytes(p)
    \/ \E p \in Procs : UploadUpsert(p)
    \/ \E p \in Procs : ProcessListDir(p)
    \/ \E p \in Procs : ProcessSync(p)
    \/ \E p \in Procs : Snapshot(p)
    \/ \E p \in Procs : \E g \in GeneratedIn : EnrichOne(p, g)
    \/ \E p \in Procs : ApplyUpdates(p)
    \/ \E p \in Procs : ToggleVisibility(p)
    \/ \E p \in Procs : DeleteUnlink(p)
    \/ \E p \in Procs : DeleteRecord(p)
    \/ \E p \in Procs : Respond(p)

SpecApp == InitApp /\ [][NextApp]_vars

-----------------------------------------------------------------------------
(* Properties of the request handlers.                                     *)

\* p has run the upload handler to its end
Uploaded(p) ==
    pc[p] = "respond" /\ op[p].name = "upload_file" /\ sanitize_filename(op[p].f) # ValueError

\* C2 as claimed: two uploads whose names sanitize to the same name end with two
\* stored files, each with the content of its upload, and two records.
C2_ConcurrentUploads ==
    \A p, q \in Procs :
        p # q /\ Uploaded(p) /\ Uploaded(q)
              /\ sanitize_filename(op[p].f) = sanitize_filename(op[q].f)
        => /\ run[p].filename # run[q].filename
           /\ Exists(files, run[p].filename) /\ files[run[p].filename] = ContentOf(p)
           /\ Exists(files, run[q].filename) /\ files[run[q].filename] = ContentOf(q)
           /\ HasRecord(Table, run[p].filename)
           /\ HasRecord(Table, run[q].filename)

\* p's handler calls update_missing_metadata in this step
WritesBack(p) == pc[p] = "enrich" /\ pc'[p] = "respond"

\* C3 as claimed: the write-back of an enrichment run never changes a title or a
\* description that is non-empty in the store.
C3_NeverChangesStored ==
    [][\A p \in Procs :
          WritesBack(p) =>
              LET before == Table
                  after == ReadRows(index', 1)
              IN  /\ Len(after) = Len(before)
                  /\ \A i \in 1..Len(before) :
                       /\ before[i].title # <<>> => after[i].title = before[i].title
                       /\ before[i].description # <<>>
                            => after[i].description = before[i].description]_vars

\* C3, amended: the write-back of an enrichment run never changes a title or a
\* description that was non-empty in the snapshot (`existing`) the run took.
C3_SnapshotNonClobber ==
    [][\A p \in Procs :
          WritesBack(p) =>
              LET before == Table
                  after == ReadRows(index', 1)
              IN  /\ Len(after) = Len(before)
                  /\ \A i \in 1..Len(before) :
                       LET was == ExistingOf(run[p].existing, before[i].filename)
                       IN  /\ was.title # <<>> => after[i].title = before[i].title
                           /\ was.description # <<>>
                                => after[i].description = before[i].description]_vars

\* Witness of C3: a run has written a generated description back for a record whose
\* title, set in its snapshot, it left alone although the summarizer gave one.
C3_Witness ==
    \E p \in Procs :
        /\ pc[p] = "respond"
        /\ \E f \in DOMAIN run[p].updates :
             /\ ExistingOf(run[p].existing, f).title # <<>>
             /\ DOMAIN run[p].updates[f] = {"description"}
             /\ \E i \in 1..Len(Table) :
                  /\ Table[i].filename = f
                  /\ Table[i].title = ExistingOf(run[p].existing, f).title
                  /\ Table[i].description = run[p].updates[f]["description"]

-----------------------------------------------------------------------------
(* _write_rows and _read_rows on their own: what is written is read back,   *)
(* and files edited by hand are read (index_store.py 194-238).             *)

\* The lists handed to _write_rows: the rows the operations build, among them the row
\* sync_new_files builds for a file named " a.md".
CsvRowIn ==
    {build_row(fa, titleX, descD, TRUE, TodayStr(1), 1),
     build_row(fb, <<>>, <<>>, FALSE, TodayStr(2), 2),
     build_row(fsp, <<>>, <<>>, FALSE, TodayStr(1), 1)}

CsvRowsIn ==
    {<<>>} \cup {<<r>> : r \in CsvRowIn} \cup {<<r, q>> : r \in CsvRowIn, q \in CsvRowIn}

\* is_public cells found in a file: missing (a short line), empty, the literals
\* _parse_bool knows, other spellings and a word that is no boolean.
PublicCellsIn ==
    {None, <<>>, CellTrue, CellFalse, <<" ", "T", "R", "U", "E">>, <<"1">>, <<"0">>,
     <<"y", "e", "s">>, <<"y">>, <<"n", "o">>, <<"m", "a", "y", "b", "e">>}

\* Files left in the database directory: one record each, with every is_public cell.
CsvFilesIn ==
    {File(<<[filename |-> fa, title |-> titleX, description |-> <<>>, is_public |-> c,
             date_uploaded |-> d, updated_at |-> <<>>]>>) :
        c \in PublicCellsIn, d \in {TodayStr(1), None}}

\* A caller takes the lock and writes rs with _write_rows.
CsvWrite(p, rs) ==
    /\ pc[p] = "idle"
    /\ lock = NoProc
    /\ lock' = p
    /\ rows' = [rows EXCEPT ![p] = rs]
    /\ index' = WriteRows(rs)
    /\ pc' = [pc EXCEPT ![p] = "written"]
    /\ UNCHANGED <<tmp, files, op, readRows, listing, run, nops, serial, complete,
                   engine, reply>>

\* _read_rows under the lock: after the caller's own _write_rows, or as list_rows does.
CsvRead(p, k) ==
    /\ \/ pc[p] = "written" /\ lock = p
       \/ pc[p] = "idle" /\ lock = NoProc
    /\ lock' = p
    /\ readRows' = [readRows EXCEPT ![p] = ReadRows(index, k)]
    /\ op' = [op EXCEPT ![p] = Op("_read_rows", <<>>, NoRow, FALSE, NoUpdates, k)]
    /\ pc' = [pc EXCEPT ![p] = IF pc[p] = "written" THEN "roundtrip" ELSE "read"]
    /\ UNCHANGED <<index, tmp, files, rows, listing, run, nops, serial, complete,
                   engine, reply>>

\* the end of the with block
CsvRelease(p) ==
    /\ pc[p] \in {"read", "roundtrip"}
    /\ lock' = NoProc
    /\ pc' = [pc EXCEPT ![p] = "done"]
    /\ UNCHANGED <<index, tmp, files, op, rows, readRows, listing, run, nops, serial,
                   complete, engine, reply>>

InitCsv ==
    /\ index \in CsvFilesIn
    /\ serial = index
    /\ complete = index
    /\ files = [n \in {} |-> "ext"]
    /\ tmp = [p \in Procs |-> NoFile]
    /\ lock = NoProc
    /\ pc = [p \in Procs |-> "idle"]
    /\ op = [p \in Procs |-> NoOp]
    /\ rows = [p \in Procs |-> <<>>]
    /\ readRows = [p \in Procs |-> <<>>]
    /\ listing = [p \in Procs |-> <<>>]
    /\ run = [p \in Procs |-> NoRun]
    /\ nops = 0
    /\ engine = NoEngine
    /\ reply = NoReply

NextCsv ==
    \/ \E p \in Procs : \E rs \in CsvRowsIn : CsvWrite(p, rs)
    \/ \E p \in Procs : \E k \in {1, 2} : CsvRead(p, k)
    \/ \E p \in Procs : CsvRelease(p)

SpecCsv == InitCsv /\ [][NextCsv]_vars

\* C12 as claimed: the rows read back after _write_rows are the rows written, in the
\* same order and with the same values in all six fields.
C12_RoundTrip ==
    \A p \in Procs : pc[p] = "roundtrip" => readRows[p] = rows[p]

\* The spellings of false a reader of booleans recognises.
FalseLiterals == {<<"0">>, CellFalse, <<"n", "o">>, <<"n">>}

\* C13 as claimed: a record read has is_public = false only when its cell is a
\* recognised false literal; a missing, empty or unparsable cell gives true.
C13_UnparsableIsPublic ==
    \A p \in Procs :
        pc[p] = "read" =>
            /\ Len(readRows[p]) = Len(index.cells)
            /\ \A i \in 1..Len(index.cells) :
                 LET c == index.cells[i].is_public
                 IN  readRows[p][i].is_public =
                        ~(c # None /\ Lower(Strip(c)) \in FalseLiterals)

-----------------------------------------------------------------------------
(* The fallback scanner (main.py 144-193).                                 *)

Max(a, b) == IF a > b THEN a ELSE b
Min(a, b) == IF a < b THEN a ELSE b

\* str.find(term, start): the least offset >= start where term occurs, or -1
Find(content, term, start) ==
    LET found == {i \in start..(Len(content) - Len(term)) :
                     SubSeq(content, i + 1, i + Len(term)) = term}
    IN  IF found = {} THEN -1 ELSE CHOOSE i \in found : \A j \in found : i <= j

\* the while loop of _find_matches, lines 186-192
RECURSIVE MatchesFrom(_, _, _)
MatchesFrom(content_lower, term_lower, start) ==
    LET idx == Find(content_lower, term_lower, start)
    IN  IF idx = -1 THEN <<>>
        ELSE <<idx>> \o MatchesFrom(content_lower, term_lower, idx + Len(term_lower))

_find_matches(content, term) ==
    IF term = <<>> THEN <<>> ELSE MatchesFrom(Lower(content), Lower(term), 0)

Quote == "\""

\* position of the first character c of s at or after position i, 0 when there is none
RECURSIVE IndexFrom(_, _, _)
IndexFrom(s, c, i) ==
    IF i > Len(s) THEN 0 ELSE IF s[i] = c THEN i ELSE IndexFrom(s, c, i + 1)

\* re.search(r"\"([^\"]+)\"", query) from position i on: the leftmost quote that is
\* followed by one or more other characters and a quote.  <<group 1>>, or <<>>.
RECURSIVE QuotedFrom(_, _)
QuotedFrom(query, i) ==
    LET open == IndexFrom(query, Quote, i)
        close == IF open = 0 THEN 0 ELSE IndexFrom(query, Quote, open + 1)
    IN  IF open = 0 \/ close = 0 THEN <<>>
        ELSE IF close > open + 1 THEN <<SubSeq(query, open + 1, close - 1)>>
        ELSE QuotedFrom(query, close)

\* A faulty _extract_phrase: the phrase is returned as it stands between the quotes.
ExtractPhraseRaw(query) ==
    LET m == QuotedFrom(query, 1) IN IF m = <<>> THEN None ELSE m[1]

_extract_phrase(query) ==
    LET m == QuotedFrom(query, 1) IN IF m = <<>> THEN None ELSE Strip(m[1])

\* term = phrase or query (line 153)
TermOf(query) == OrElse(_extract_phrase(query), query)

window == 25

MaxResults == 100

Dots == <<".", ".", ".">>

\* A faulty snippet: a marker is put where the window was cut by the end of the text.
SnippetMarkedWhenClipped(content, start, term) ==
    LET end == start + Len(term)
    IN  (IF start - window < 0 THEN Dots ELSE <<>>)
        \o SubSeq(content, Max(start - window, 0) + 1, Min(end + window, Len(content)))
        \o (IF end + window > Len(content) THEN Dots ELSE <<>>)

\* lines 163-170
Snippet(content, start, term) ==
    LET end == start + Len(term)
        snippet_start == Max(start - window, 0)
        snippet_end == Min(end + window, Len(content))
    IN  (IF snippet_start > 0 THEN Dots ELSE <<>>)
        \o SubSeq(content, snippet_start + 1, snippet_end)
        \o (IF snippet_end < Len(content) THEN Dots ELSE <<>>)

SearchResult(snippet, filename) == [snippet |-> snippet, filename |-> filename]

\* lines 149-150
CandidateRows(rs, public_only) ==
    IF public_only THEN SelectSeq(rs, LAMBDA r : r.is_public) ELSE rs

\* The loop of lines 156-171 over the rows rs[n], rs[n+1], ...: every hit with the
\* position of its row and the offset of its match.
RECURSIVE HitsFrom(_, _, _, _)
HitsFrom(rs, n, dir, term) ==
    IF n > Len(rs) THEN <<>>
    ELSE LET row == rs[n]
             content == dir[row.filename]
             matches == _find_matches(content, term)
         IN  (IF ~Exists(dir, row.filename) THEN <<>>
              ELSE [i \in 1..Len(matches) |->
                      [row |-> n,
                       start |-> matches[i],
                       result |-> SearchResult(Snippet(content, matches[i], term),
                                               row.filename)]])
             \o HitsFrom(rs, n + 1, dir, term)

HitsOf(rs, dir, term) == HitsFrom(rs, 1, dir, term)

\* A faulty cut: the last hits are kept.
TakeLast(results, n) == SubSeq(results, Max(Len(results) - n, 0) + 1, Len(results))

\* results[:n]
Take(results, n) == SubSeq(results, 1, Min(n, Len(results)))

\* _fallback_search on the table file `table` and the directory dir, with the clock
\* reading k of its list_rows: the results, and the locals term and matches.
_fallback_search(query, public_only, table, dir, k) ==
    LET q == Strip(query)
        term == TermOf(q)
        hits == HitsOf(CandidateRows(ReadRows(table, k), public_only), dir, term)
    IN  IF q = <<>> THEN [results |-> <<>>, term |-> <<>>, matches |-> <<>>]
        ELSE [results |-> Take([i \in 1..Len(hits) |-> hits[i].result], MaxResults),
              term |-> term,
              matches |-> [i \in 1..Len(hits) |->
                             [row |-> hits[i].row,
                              filename |-> hits[i].result.filename,
                              start |-> hits[i].start]]]

-----------------------------------------------------------------------------
(* SearchService (search_service.py 15-138) and _run_search (main.py       *)
(* 135-141).                                                               *)

\* What a call of the Elasticsearch client does: it returns, or raises one of the
\* client's exceptions.
Exceptions == {"ConnectionError", "NotFoundError"}

\* A faulty handler: except ConnectionError.
CatchesConnectionOnly(exc) == exc = "ConnectionError"

\* except Exception: every exception of the client is caught.
Catches(exc) == exc \in Exceptions

\* what a method gives back: the service after it, whether an exception left it, and
\* the value returned
Returned(e, raised, value) == [engine |-> e, raised |-> raised, value |-> value]

is_enabled(e) == e.client

\* ensure_index, lines 36-54: outcome is that of the index check and creation
ensure_index(e, outcome) ==
    IF ~e.client \/ e.index_ready THEN Returned(e, FALSE, NotAvailable)
    ELSE IF outcome = "ok"
         THEN Returned([e EXCEPT !.created = TRUE, !.index_ready = TRUE], FALSE,
                       NotAvailable)
         ELSE Returned(e, ~Catches(outcome), NotAvailable)

\* the engine's documents with document id set to is_public
WithDoc(docs, id, is_public) ==
    [n \in DOMAIN docs \cup {id} |-> IF n = id THEN is_public ELSE docs[n]]

WithoutDoc(docs, id) == [n \in DOMAIN docs \ {id} |-> docs[n]]

\* A faulty service: without a client the methods answer as with one.
DisabledAnswersEmpty(e) == Returned(e, FALSE, Available(<<>>))

\* if not self.client: return [None]
Disabled(e) == Returned(e, FALSE, NotAvailable)

\* index_document, lines 56-72
index_document(e, filename, is_public, o1, o2) ==
    IF ~e.client THEN Disabled(e)
    ELSE LET ready == ensure_index(e, o1)
         IN  IF ready.raised THEN ready
             ELSE IF o2 = "ok"
                  THEN Returned([ready.engine EXCEPT
                                   !.docs = WithDoc(@, filename, is_public)], FALSE,
                                NotAvailable)
                  ELSE Returned(ready.engine, ~Catches(o2), NotAvailable)

\* delete_document, lines 74-81: a missing document is no error (ignore=[404])
delete_document(e, filename, o1, o2) ==
    IF ~e.client THEN Disabled(e)
    ELSE LET ready == ensure_index(e, o1)
         IN  IF ready.raised THEN ready
             ELSE IF o2 = "ok"
                  THEN Returned([ready.engine EXCEPT !.docs = WithoutDoc(@, filename)],
                                FALSE, NotAvailable)
                  ELSE Returned(ready.engine, ~Catches(o2), NotAvailable)

\* update_visibility, lines 83-95: the update of a missing document raises NotFoundError
update_visibility(e, filename, is_public, o1, o2) ==
    IF ~e.client THEN Disabled(e)
    ELSE LET ready == ensure_index(e, o1)
             outcome == IF o2 = "ok" /\ filename \notin DOMAIN ready.engine.docs
                        THEN "NotFoundError" ELSE o2
         IN  IF ready.raised THEN ready
             ELSE IF outcome = "ok"
                  THEN Returned([ready.engine EXCEPT
                                   !.docs = WithDoc(@, filename, is_public)], FALSE,
                                NotAvailable)
                  ELSE Returned(ready.engine, ~Catches(outcome), NotAvailable)

\* The hits of a response: [filename, fragments].  Lines 127-138 turn them into results.
RECURSIVE ResultsOfHits(_)
ResultsOfHits(hits) ==
    IF hits = <<>> THEN <<>>
    ELSE LET hit == Head(hits)
         IN  (IF hit.fragments # <<>>
              THEN [i \in 1..Len(hit.fragments) |->
                      SearchResult(hit.fragments[i], hit.filename)]
              ELSE <<SearchResult(<<>>, hit.filename)>>)
             \o ResultsOfHits(Tail(hits))

\* search, lines 97-138: o2 is the outcome of client.search and answer its hits
search(e, query, public_only, o1, o2, answer) ==
    IF ~e.client THEN Disabled(e)
    ELSE LET ready == ensure_index(e, o1)
         IN  IF ready.raised THEN ready
             ELSE IF Strip(query) = <<>> THEN Returned(ready.engine, FALSE, Available(<<>>))
             ELSE IF o2 = "ok"
                  THEN Returned(ready.engine, FALSE, Available(ResultsOfHits(answer)))
             ELSE Returned(ready.engine, ~Catches(o2), NotAvailable)

\* _run_search, as a reply
_run_search(e, query, is_authenticated, o1, o2, answer, table, dir, k) ==
    LET public_only == ~is_authenticated
        found == IF is_enabled(e) THEN search(e, query, public_only, o1, o2, answer)
                 ELSE Disabled(e)
        scanned == _fallback_search(query, public_only, table, dir, k)
        asked == is_enabled(e) /\ ~found.raised /\ Strip(query) # <<>>
        base == [NoReply EXCEPT !.call = "_run_search", !.query = query,
                                !.authenticated = is_authenticated,
                                !.public_only = public_only,
                                !.failed = asked /\ o2 # "ok",
                                !.answer = IF asked /\ o2 = "ok" THEN answer ELSE <<>>]
    IN  [engine |-> found.engine,
         reply |->
            IF found.raised THEN [base EXCEPT !.raised = TRUE]
            ELSE IF is_enabled(e) /\ found.value.available
                 THEN [base EXCEPT !.results = found.value.list]
                 ELSE [base EXCEPT !.results = scanned.results, !.fallback = TRUE,
                                   !.term = scanned.term, !.matches = scanned.matches]]

-----------------------------------------------------------------------------
(* Searches over small corpora.                                            *)

fd == <<"d", ".", "m", "d">>

qTest == <<"t", "e", "s", "t">>

\* "aaa", "aaA b", and 200 characters with "test" at offset 100
cAAA == <<"a", "a", "a">>
cMixed == <<"a", "a", "A", " ", "b">>
Doc200 == [i \in 1..200 |-> IF i \in 101..104 THEN qTest[i - 100] ELSE "z"]
\* 30 times "x"
cX30 == [i \in 1..30 |-> "x"]

\* The queries: test, x, AA with blanks around it, a b (two words), "a b" c (a phrase),
\* " a " (a phrase with blanks around it), " " (a blank phrase), and a blank query.
QueriesIn ==
    {qTest,
     <<"x">>,
     <<" ", "A", "A", " ">>,
     <<"a", " ", "b">>,
     <<Quote, "a", " ", "b", Quote, " ", "c">>,
     <<Quote, " ", "a", " ", Quote>>,
     <<Quote, " ", Quote>>,
     <<" ", " ">>}

DocRow(filename, is_public) ==
    build_row(filename, titleX, descD, is_public, TodayStr(1), 1)

\* A corpus: the rows of the table and the files of markdown_files/.
Corpus(rs, dir) == [rows |-> rs, files |-> dir]

CorporaIn ==
    {Corpus(<<DocRow(fa, TRUE), DocRow(fb, FALSE)>>,
            [n \in {fa, fb} |-> IF n = fa THEN cAAA ELSE cMixed]),
     Corpus(<<DocRow(fa, TRUE)>>, [n \in {fa} |-> cAAA]),
     Corpus(<<DocRow(fa, TRUE), DocRow(fb, FALSE)>>,
            [n \in {fa, fb} |-> IF n = fa THEN cAAA ELSE cAAA]),
     Corpus(<<DocRow(fb, TRUE), DocRow(fd, TRUE), DocRow(fa, FALSE), DocRow(fc, TRUE)>>,
            [n \in {fa, fb, fc, fd} |-> cX30]),
     Corpus(<<DocRow(fc, TRUE), DocRow(fa, TRUE)>>, [n \in {fa} |-> cMixed]),
     Corpus(<<DocRow(fd, TRUE)>>, [n \in {fd} |-> Doc200]),
     Corpus(<<DocRow(fa, TRUE), DocRow(fsp, FALSE)>>,
            [n \in {fa, fsp} |-> IF n = fa THEN cAAA ELSE cMixed])}

\* The hits of an answer of the engine: a hit with two fragments and a hit without.
SomeHits ==
    <<[filename |-> fa, fragments |-> <<cAAA, cMixed>>],
      [filename |-> fb, fragments |-> <<>>]>>

\* What the engine does during one call of the service: the outcome of the index check
\* of ensure_index, the outcome of the call itself, and the hits of a search.
EngineRun(ensure, call, hits) == [ensure |-> ensure, call |-> call, hits |-> hits]

EngineRunsIn ==
    {EngineRun("ok", "ok", SomeHits),
     EngineRun("ok", "ok", <<>>),
     EngineRun("ok", "ConnectionError", <<>>),
     EngineRun("ok", "NotFoundError", <<>>),
     EngineRun("NotFoundError", "ok", SomeHits)}

\* A request reaches _run_search.
RunSearch(query, is_authenticated, o1, o2, answer) ==
    /\ LET r == _run_search(engine, query, is_authenticated, o1, o2, answer, index,
                            files, 1)
       IN  /\ engine' = r.engine
           /\ reply' = r.reply
    /\ UNCHANGED <<index, tmp, lock, files, pc, op, rows, readRows, listing, run, nops,
                   serial, complete>>

\* search_service.search is called.
ServiceSearch(query, public_only, o1, o2, answer) ==
    /\ LET r == search(engine, query, public_only, o1, o2, answer)
       IN  /\ engine' = r.engine
           /\ reply' = [NoReply EXCEPT !.call = "search", !.query = query,
                                       !.public_only = public_only,
                                       !.value = r.value, !.raised = r.raised]
    /\ UNCHANGED <<index, tmp, lock, files, pc, op, rows, readRows, listing, run, nops,
                   serial, complete>>

\* rows = {row.filename: row.is_public for row in ...}; rows.get(filename, False)
\* (main.py 96, 102): of several rows with the filename the last one counts.
PublicOf(rs, filename) ==
    LET named == {i \in 1..Len(rs) : rs[i].filename = filename}
    IN  IF named = {} THEN FALSE
        ELSE rs[CHOOSE i \in named : \A j \in named : j <= i].is_public

\* _index_markdown_files (main.py 93-103): index_document for a file of the directory,
\* with the is_public of its record, False without one.
IndexDocument(filename, o1, o2) ==
    /\ Exists(files, filename)
    /\ LET r == index_document(engine, filename, PublicOf(Table, filename), o1, o2)
       IN  /\ engine' = r.engine
           /\ reply' = [NoReply EXCEPT !.call = "index_document", !.raised = r.raised]
    /\ UNCHANGED <<index, tmp, lock, files, pc, op, rows, readRows, listing, run, nops,
                   serial, complete>>

\* toggle_visibility (main.py 402): search_service.update_visibility
UpdateVisibility(filename, is_public, o1, o2) ==
    /\ LET r == update_visibility(engine, filename, is_public, o1, o2)
       IN  /\ engine' = r.engine
           /\ reply' = [NoReply EXCEPT !.call = "update_visibility", !.raised = r.raised]
    /\ UNCHANGED <<index, tmp, lock, files, pc, op, rows, readRows, listing, run, nops,
                   serial, complete>>

\* delete_file (main.py 413): search_service.delete_document
DeleteDocument(filename, o1, o2) ==
    /\ LET r == delete_document(engine, filename, o1, o2)
       IN  /\ engine' = r.engine
           /\ reply' = [NoReply EXCEPT !.call = "delete_document", !.raised = r.raised]
    /\ UNCHANGED <<index, tmp, lock, files, pc, op, rows, readRows, listing, run, nops,
                   serial, complete>>

\* The application starts with or without ELASTICSEARCH_URL, on one of the corpora.
InitSearch ==
    /\ \E c \in CorporaIn : index = WriteRows(c.rows) /\ files = c.files
    /\ \E configured \in BOOLEAN : engine = [NoEngine EXCEPT !.client = configured]
    /\ reply = NoReply
    /\ serial = index
    /\ complete = index
    /\ tmp = [p \in Procs |-> NoFile]
    /\ lock = NoProc
    /\ pc = [p \in Procs |-> "idle"]
    /\ op = [p \in Procs |-> NoOp]
    /\ rows = [p \in Procs |-> <<>>]
    /\ readRows = [p \in Procs |-> <<>>]
    /\ listing = [p \in Procs |-> <<>>]
    /\ run = [p \in Procs |-> NoRun]
    /\ nops = 0

NextSearch ==
    \/ \E q \in QueriesIn, a \in BOOLEAN, r \in EngineRunsIn :
          RunSearch(q, a, r.ensure, r.call, r.hits)
    \/ \E q \in {qTest, <<" ", " ">>}, b \in BOOLEAN, r \in EngineRunsIn :
          ServiceSearch(q, b, r.ensure, r.call, r.hits)
    \/ \E r \in EngineRunsIn : IndexDocument(fa, r.ensure, r.call)
    \/ \E b \in BOOLEAN, r \in EngineRunsIn : UpdateVisibility(fa, b, r.ensure, r.call)
    \/ \E r \in EngineRunsIn : DeleteDocument(fa, r.ensure, r.call)

SpecSearch == InitSearch /\ [][NextSearch]_vars

-----------------------------------------------------------------------------
(* Properties of the searches.                                             *)

\* the last call was a _run_search that ran _fallback_search on a query that is not blank
Scanned == reply.call = "_run_search" /\ reply.fallback /\ Strip(reply.query) # <<>>

\* the text of the window around the match of `term` at offset start
WindowText(content, start, term) ==
    SubSeq(content, Max(start - window, 0) + 1,
           Min(start + Len(term) + window, Len(content)))

\* C14 as claimed: the snippet of a hit is content[max(s-25,0) : min(s+L+25,n)], with
\* a marker in front only when the window was cut by the start of the document and a
\* marker behind only when it was cut by its end.
C14_MarkersWhenClipped ==
    Scanned =>
        \A i \in 1..Len(reply.results) :
            LET content == files[reply.results[i].filename]
                s == reply.matches[i].start
                text == WindowText(content, s, reply.term)
            IN  \E front, back \in BOOLEAN :
                    /\ reply.results[i].snippet =
                          (IF front THEN Dots ELSE <<>>) \o text
                          \o (IF back THEN Dots ELSE <<>>)
                    /\ front => s - window < 0
                    /\ back => s + Len(reply.term) + window > Len(content)

\* C14, amended: the snippet of a hit is content[max(s-25,0) : min(s+L+25,n)], with a
\* marker in front exactly when the window starts after the start of the document and
\* a marker behind exactly when it ends before the end of the document.
C14_MarkersWhenTextOmitted ==
    Scanned =>
        \A i \in 1..Len(reply.results) :
            LET content == files[reply.results[i].filename]
                s == reply.matches[i].start
                text == WindowText(content, s, reply.term)
            IN  reply.results[i].snippet =
                   (IF s - window > 0 THEN Dots ELSE <<>>) \o text
                   \o (IF s + Len(reply.term) + window < Len(content) THEN Dots ELSE <<>>)

\* Witness of C14: "test" was found at offset 100 of the document of 200 characters;
\* the snippet is the text of offsets 75 to 128 between two markers.
C14_Witness ==
    /\ Scanned
    /\ reply.term = qTest
    /\ \E i \in 1..Len(reply.results) :
         /\ reply.matches[i].filename = fd
         /\ reply.matches[i].start = 100
         /\ Len(files[fd]) = 200
         /\ reply.results[i].snippet = Dots \o SubSeq(files[fd], 76, 129) \o Dots

\* the rows _fallback_search visits
Candidates == CandidateRows(Table, reply.public_only)

\* C15 as claimed: every offset at which the lower-cased content of a visited document
\* matches the lower-cased term is among the matches, overlapping ones included.
C15_EveryOccurrence ==
    Scanned =>
        \A r \in 1..Len(Candidates) :
            LET f == Candidates[r].filename
            IN  Exists(files, f) =>
                  \A i \in 0..(Len(files[f]) - Len(reply.term)) :
                     SubSeq(Lower(files[f]), i + 1, i + Len(reply.term)) = Lower(reply.term)
                        => \E j \in 1..Len(reply.matches) :
                              reply.matches[j].row = r /\ reply.matches[j].start = i

\* C16: the result has at most 100 hits; it is the first 100 (or all) of the hits of
\* all matches, and these come in the order of the records visited, which is that of
\* the table, and, within a document, by increasing offset.
C16_FirstHundred ==
    Scanned =>
        /\ Len(reply.results) <= MaxResults
        /\ Len(reply.results) = Min(Len(reply.matches), MaxResults)
        /\ \A i \in 1..Len(reply.results) :
             reply.results[i] =
                SearchResult(Snippet(files[reply.matches[i].filename],
                                     reply.matches[i].start, reply.term),
                             reply.matches[i].filename)
        /\ \A i, j \in 1..Len(reply.matches) :
             i < j =>
                LET a == reply.matches[i]
                    b == reply.matches[j]
                IN  \/ a.row < b.row
                    \/ a.row = b.row /\ a.start < b.start
        /\ \A i \in 1..Len(reply.matches) :
             Candidates[reply.matches[i].row].filename = reply.matches[i].filename
        /\ \E at \in [1..Len(Candidates) -> 1..Len(Table)] :
             /\ \A r \in 1..Len(Candidates) : Table[at[r]] = Candidates[r]
             /\ \A r, t \in 1..Len(Candidates) : r < t => at[r] < at[t]

\* Witness of C16: more than 100 matches in several documents; the result ends within
\* a document that is not the first, before the last match of that document.
C16_Witness ==
    /\ Scanned
    /\ Len(reply.matches) > MaxResults
    /\ Len(reply.results) = MaxResults
    /\ reply.results[1].filename # reply.results[MaxResults].filename
    /\ reply.matches[MaxResults + 1].filename = reply.results[MaxResults].filename

\* C17 as claimed: the term is the text between the quotes when the query has a quoted
\* substring, and the whole trimmed query otherwise.
C17_QuotedTextIsTerm ==
    Scanned =>
        LET quoted == QuotedFrom(Strip(reply.query), 1)
        IN  reply.term = IF quoted # <<>> THEN quoted[1] ELSE Strip(reply.query)

\* C17, amended: the term is the trimmed text between the first pair of quotes that
\* enclose something, unless that is blank; otherwise it is the whole trimmed query,
\* quotes included and never split.  Every match is an offset where the content
\* contains the term, case ignored, and a blank query has no hits.
C17_TermOfQuery ==
    /\ Scanned =>
        LET quoted == QuotedFrom(Strip(reply.query), 1)
        IN  /\ reply.term = IF quoted # <<>> /\ Strip(quoted[1]) # <<>>
                            THEN Strip(quoted[1]) ELSE Strip(reply.query)
            /\ \A j \in 1..Len(reply.matches) :
                 LET content == files[reply.matches[j].filename]
                     s == reply.matches[j].start
                 IN  SubSeq(Lower(content), s + 1, s + Len(reply.term)) = Lower(reply.term)
            /\ \A r \in 1..Len(Candidates) :
                 LET f == Candidates[r].filename
                 IN  (/\ Exists(files, f)
                      /\ \E i \in 0..(Len(files[f]) - Len(reply.term)) :
                           SubSeq(Lower(files[f]), i + 1, i + Len(reply.term))
                              = Lower(reply.term))
                     => \E j \in 1..Len(reply.matches) : reply.matches[j].filename = f
    /\ reply.call = "_run_search" /\ reply.fallback /\ Strip(reply.query) = <<>>
         => reply.results = <<>>

\* Witness of C17: the query " a " in quotes was searched as a and found in upper and
\* lower case.
C17_Witness ==
    /\ Scanned
    /\ reply.query = <<Quote, " ", "a", " ", Quote>>
    /\ reply.term = <<"a">>
    /\ \E i, j \in 1..Len(reply.matches) :
         /\ reply.matches[i].filename = reply.matches[j].filename
         /\ files[reply.matches[i].filename][reply.matches[i].start + 1] = "a"
         /\ files[reply.matches[j].filename][reply.matches[j].start + 1] = "A"

\* C18: without a client the service stays as it is whatever is called, no call
\* raises, search returns None, and _run_search returns what _fallback_search returns
\* for the same query with public_only = not is_authenticated.
C18_DisabledEngine ==
    ~engine.client =>
        /\ engine = NoEngine
        /\ ~reply.raised
        /\ reply.call = "search" => reply.value = NotAvailable
        /\ reply.call = "_run_search" =>
             /\ reply.fallback
             /\ reply.public_only = ~reply.authenticated
             /\ reply.results =
                  _fallback_search(reply.query, ~reply.authenticated, index, files, 1).results

\* Witness of C18: without a client, a search of an anonymous caller returned hits
\* of the scanner.
C18_Witness ==
    /\ ~engine.client
    /\ reply.call = "_run_search"
    /\ ~reply.authenticated
    /\ reply.results # <<>>

\* C19: with a client no call of the service raises; when client.search failed,
\* _run_search returns the scanner's results; when the engine answered, it returns the
\* results of the answer, none if the answer has no hit, and the scanner does not run.
C19_EngineFailuresContained ==
    engine.client =>
        /\ ~reply.raised
        /\ reply.call = "_run_search" /\ reply.failed =>
             /\ reply.fallback
             /\ reply.results =
                  _fallback_search(reply.query, reply.public_only, index, files, 1).results
        /\ reply.call = "_run_search" /\ ~reply.failed =>
             /\ ~reply.fallback
             /\ reply.results = ResultsOfHits(reply.answer)

\* Witness of C19: client.search failed and the caller got hits of the scanner.
C19_Witness ==
    /\ engine.client
    /\ reply.call = "_run_search"
    /\ reply.failed
    /\ reply.fallback
    /\ reply.results # <<>>

\* the names of the private records of a table
PrivateNames(rs) == {rs[i].filename : i \in {j \in 1..Len(rs) : ~rs[j].is_public}}

\* what a corpus shows of its public documents: their names in table order, and the
\* content of each
PublicView(c) ==
    LET public == SelectSeq(c.rows, LAMBDA r : r.is_public)
    IN  [i \in 1..Len(public) |->
            <<public[i].filename,
              IF Exists(c.files, public[i].filename) THEN <<c.files[public[i].filename]>>
              ELSE <<>> >>]

\* C20 as claimed: a public_only scan returns no hit whose filename is that of a
\* private record of the table, and every corpus with the same public documents gives
\* the same result, whatever its private documents.
C20_PrivateInvisible ==
    Scanned /\ reply.public_only =>
        /\ \A i \in 1..Len(reply.results) :
             reply.results[i].filename \notin PrivateNames(Table)
        /\ \A c \in CorporaIn :
             PublicView(c) = PublicView(Corpus(Table, files))
                => _fallback_search(reply.query, TRUE, WriteRows(c.rows), c.files, 1).results
                     = reply.results

-----------------------------------------------------------------------------
(* sanitize_filename on its own (index_store.py 34-43): the names a caller *)
(* can supply, and one call for each.                                      *)

MaxStem == 4

\* the characters of the supplied stems: a letter in each case, an underscore, a
\* character outside the class, a blank and a dot
StemChars == {"a", "M", "_", "!", " ", "."}

RECURSIVE StemsUpTo(_)
StemsUpTo(n) ==
    IF n = 0 THEN {<<>>}
    ELSE LET shorter == StemsUpTo(n - 1)
         IN  shorter \cup {s \o <<c>> : s \in shorter, c \in StemChars}

\* directory components in front of the name, and what follows its stem
DirsIn == {<<>>, <<"d", "/">>, <<".", ".", "/">>}
ExtsIn == {ExtMd, <<".", "M", "d">>, ExtMarkdown, <<".", "t">>, <<>>}

NamesIn == {d \o s \o e : d \in DirsIn, s \in StemsUpTo(MaxStem), e \in ExtsIn}

\* sanitize_filename(original_name) is called and returns or raises.
SanitizeCall(p) ==
    /\ pc[p] = "sanitize"
    /\ run' = [run EXCEPT ![p].filename = sanitize_filename(op[p].f)]
    /\ pc' = [pc EXCEPT ![p] = "sanitized"]
    /\ UNCHANGED <<index, tmp, lock, files, op, rows, readRows, listing, nops, serial,
                   complete, engine, reply>>

InitSanitize ==
    /\ \E n \in NamesIn :
         op = [p \in Procs |-> IF p = "p1" THEN [NoOp EXCEPT !.name = "sanitize_filename",
                                                            !.f = n]
                               ELSE NoOp]
    /\ pc = [p \in Procs |-> IF p = "p1" THEN "sanitize" ELSE "idle"]
    /\ index = File(<<>>)
    /\ serial = index
    /\ complete = index
    /\ files = [n \in {} |-> "ext"]
    /\ tmp = [p \in Procs |-> NoFile]
    /\ lock = NoProc
    /\ rows = [p \in Procs |-> <<>>]
    /\ readRows = [p \in Procs |-> <<>>]
    /\ listing = [p \in Procs |-> <<>>]
    /\ run = [p \in Procs |-> NoRun]
    /\ nops = 0
    /\ engine = NoEngine
    /\ reply = NoReply

NextSanitize == \E p \in Procs : SanitizeCall(p)

SpecSanitize == InitSanitize /\ [][NextSanitize]_vars

\* the n-th position of a set of positions, in increasing order
NthOf(S, n) == CHOOSE i \in S : Cardinality({j \in S : j <= i}) = n

\* s with each maximal run of characters outside [A-Za-z0-9_-] replaced by one
\* underscore: the characters of the class stay, and of each run the first position
\* gives the underscore
RunsReplaced(s) ==
    LET kept == {i \in 1..Len(s) :
                    s[i] \in SafeChars \/ i = 1 \/ s[i - 1] \in SafeChars}
    IN  [n \in 1..Cardinality(kept) |->
            IF s[NthOf(kept, n)] \in SafeChars THEN s[NthOf(kept, n)] ELSE "_"]

\* s without its leading and trailing underscores
Untrimmed(s) == {i \in 1..Len(s) : s[i] # "_"}
Trimmed(s) ==
    IF Untrimmed(s) = {} THEN <<>>
    ELSE SubSeq(s, NthOf(Untrimmed(s), 1), NthOf(Untrimmed(s), Cardinality(Untrimmed(s))))

Placeholder == <<"d", "o", "c", "u", "m", "e", "n", "t">>

\* C23: sanitize_filename raises exactly when the lower-cased extension of the last
\* path component is neither .md nor .markdown; otherwise the name it returns has no
\* directory component, ends with that lower-cased extension, and its stem has only
\* characters of [A-Za-z0-9_-], no underscore at either end, and is the supplied stem
\* with each run of other characters replaced by one underscore and then trimmed of
\* underscores, or "document" when that is empty.
C23_Sanitized ==
    \A p \in Procs :
        pc[p] = "sanitized" =>
            LET out == run[p].filename
                slashes == {i \in 1..Len(op[p].f) : op[p].f[i] = "/"}
                last == IF slashes = {} THEN 0
                        ELSE NthOf(slashes, Cardinality(slashes))
                base == SubSeq(op[p].f, last + 1, Len(op[p].f))
                given == SplitExt(base)
                stem == SubSeq(out, 1, Len(out) - Len(given.ext))
                wanted == Trimmed(RunsReplaced(given.name))
            IN  /\ out = ValueError <=> Lower(given.ext) \notin ALLOWED_EXTENSIONS
                /\ out # ValueError =>
                     /\ \A i \in 1..Len(out) : out[i] # "/"
                     /\ SubSeq(out, Len(stem) + 1, Len(out)) = Lower(given.ext)
                     /\ stem # <<>>
                     /\ \A i \in 1..Len(stem) : stem[i] \in SafeChars
                     /\ stem[1] # "_" /\ stem[Len(stem)] # "_"
                     /\ stem = IF wanted = <<>> THEN Placeholder ELSE wanted

\* Witness of C23: a name with a directory, a stem with a run of two characters
\* outside the class and an upper-case extension was sanitized.
C23_Witness ==
    \E p \in Procs :
        /\ pc[p] = "sanitized"
        /\ op[p].f = <<".", ".", "/", "a", "!", " ", "M", ".", "M", "d">>
        /\ run[p].filename = <<"a", "_", "M", ".", "m", "d">>

-----------------------------------------------------------------------------
(* The summarizer (openai_client.py) and the resolution of paths.          *)

\* What _parse_metadata_output finds in the text of a response: whether the call gave
\* a text at all (no exception, output_text not empty), the title and description of
\* the JSON object in it (<<>> without one), and group 1 of the searches for a
\* "title:" and a "description:" line (<<>> without a match).
Response(text, json, title_line, description_line) ==
    [text |-> text, json |-> json, title_line |-> title_line,
     description_line |-> description_line]

\* _parse_metadata_output, lines 36-55: <<>> for None, or <<dict>>
_parse_metadata_output(r) ==
    LET title == IF r.json = <<>> THEN <<>> ELSE Strip(r.json[1].title)
        description == IF r.json = <<>> THEN <<>> ELSE Strip(r.json[1].description)
    IN  IF title # <<>> \/ description # <<>>
        THEN <<[title |-> title, description |-> description]>>
        ELSE IF r.title_line # <<>> \/ r.description_line # <<>>
        THEN <<[title |-> IF r.title_line # <<>> THEN Strip(r.title_line[1]) ELSE <<>>,
                description |-> IF r.description_line # <<>>
                                THEN Strip(r.description_line[1]) ELSE <<>>]>>
        ELSE <<>>

\* generate_metadata, lines 15-33
generate_metadata(r) == IF ~r.text THEN <<>> ELSE _parse_metadata_output(r)

\* The responses: no text; a JSON object with both fields; a JSON object with blank
\* fields; the text "title: ", whose group 1 is a blank.
ResponsesIn ==
    {Response(FALSE, <<>>, <<>>, <<>>),
     Response(TRUE, <<[title |-> titleY, description |-> descE]>>, <<>>, <<>>),
     Response(TRUE, <<[title |-> <<" ">>, description |-> <<>>]>>, <<>>, <<>>),
     Response(TRUE, <<>>, <<<<" ">>>>, <<>>)}

\* the components of a path, between its slashes
RECURSIVE Components(_)
Components(path) ==
    LET slash == IndexFrom(path, "/", 1)
    IN  IF slash = 0 THEN <<path>>
        ELSE <<SubSeq(path, 1, slash - 1)>> \o Components(SubSeq(path, slash + 1, Len(path)))

\* (markdown_dir / filename).resolve(): how deep below markdown_dir the path ends after
\* the components comps, starting d deep; -1 when it has left markdown_dir
RECURSIVE DepthFrom(_, _)
DepthFrom(comps, d) ==
    IF comps = <<>> THEN d
    ELSE IF Head(comps) = <<".", ".">>
         THEN (IF d = 0 THEN -1 ELSE DepthFrom(Tail(comps), d - 1))
    ELSE IF Head(comps) \in {<<>>, <<".">>} THEN DepthFrom(Tail(comps), d)
    ELSE DepthFrom(Tail(comps), d + 1)

\* store.markdown_dir.resolve() in safe_path.parents (main.py 237-238)
InsideRoot(filename) == DepthFrom(Components(filename), 0) >= 1

-----------------------------------------------------------------------------
(* The request handlers of main.py call by call: every store method takes  *)
(* and releases the lock, and every call of the summarizer or of the       *)
(* search engine begins and ends.  One worker serves the requests one      *)
(* after the other.                                                        *)

MaxWork == 2

\* a file beside markdown_files/, as the path that reaches it from there
OutsideFile == <<".", ".", "/", "x", ".", "m", "d">>

fReport == <<"M", "y", " ", "R", "e", "p", "o", "r", "t", "!", ".", "m", "d">>
fBang == <<"a", "!", ".", "m", "d">>
fa1 == <<"a", "-", "1", ".", "m", "d">>

\* What the application finds when it starts, the files empty: nothing; a record without title whose
\* file has a namesake a-1.md without record, and a record whose file is gone; a file
\* put into the directory by hand.
ReposIn ==
    {Corpus(<<>>, [n \in {OutsideFile} |-> <<>>]),
     Corpus(<<build_row(fa, <<>>, descD, FALSE, TodayStr(1), 1),
              build_row(fb, <<>>, <<>>, TRUE, TodayStr(1), 1)>>,
            [n \in {fa, fa1, OutsideFile} |-> <<>>]),
     Corpus(<<>>, [n \in {fBang, OutsideFile} |-> <<>>])}

WorkRequests ==
    {Request("upload_file", fReport, <<>>, <<>>, TRUE, 1),
     Request("upload_file", fa, titleX, <<>>, FALSE, 1),
     Request("process_markdowns", <<>>, <<>>, <<>>, FALSE, 2),
     Request("update_metadata", <<>>, <<>>, <<>>, FALSE, 2),
     Request("toggle_visibility", fa, <<>>, <<>>, TRUE, 2),
     Request("delete_file", fa, <<>>, <<>>, FALSE, 2),
     Request("delete_file", OutsideFile, <<>>, <<>>, FALSE, 2),
     Request("view_markdown", fa, <<>>, <<>>, FALSE, 2),
     Request("view_markdown", OutsideFile, <<>>, <<>>, FALSE, 2)}

WorkStart(name) ==
    CASE name = "upload_file" -> "save"
      [] name = "process_markdowns" -> "sync"
      [] name = "update_metadata" -> "snapshot"
      [] name = "toggle_visibility" -> "toggle"
      [] name = "delete_file" -> "unlink"
      [] OTHER -> "get_row"

\* where a handler is when it calls a method of the store that takes the lock
StorePcs == {"upsert", "sync", "snapshot", "apply", "index_rows", "toggle", "delete_row",
             "get_row"}

\* where a handler is while a call of the summarizer or of the engine is in progress
ExternalPcs == {"summarizing", "indexing", "updating", "deleting"}

\* A request arrives; the caller is authenticated or not (the /manage handlers
\* redirect a caller who is not, lines 338, 371, 399, 409, 420).
WorkReceive(p, r, authenticated) ==
    /\ pc[p] = "idle"
    /\ nops < MaxWork
    /\ authenticated \/ r.name = "view_markdown"
    /\ nops' = nops + 1
    /\ op' = [op EXCEPT ![p] = r]
    /\ run' = [run EXCEPT ![p] =
                 [NoRun EXCEPT !.before = [files |-> files, table |-> Table,
                                           docs |-> engine.docs]]]
    /\ reply' = [NoReply EXCEPT !.call = r.name, !.authenticated = authenticated]
    /\ pc' = [pc EXCEPT ![p] = WorkStart(r.name)]
    /\ UNCHANGED <<index, tmp, lock, files, rows, readRows, listing, serial, complete,
                   engine>>

\* upload_file 341-347: save_markdown_file (index_store.py 124-129); the bytes of an
\* upload are told apart by the name they came under
WorkSave(p) ==
    /\ pc[p] = "save"
    /\ LET sanitized == sanitize_filename(op[p].f)
           unique_name == ensure_unique_filename(files, sanitized)
       IN  IF sanitized = ValueError
           THEN /\ pc' = [pc EXCEPT ![p] = "respond"]
                /\ run' = [run EXCEPT ![p].status = "unsupported"]
                /\ UNCHANGED files
           ELSE /\ pc' = [pc EXCEPT ![p] = "upsert"]
                /\ run' = [run EXCEPT ![p].filename = unique_name]
                /\ files' = WriteFile(files, unique_name, op[p].f)
    /\ UNCHANGED <<index, tmp, lock, op, rows, readRows, listing, nops, serial, complete,
                   engine, reply>>

\* delete_file 411: store.delete_markdown_file(filename)
WorkUnlink(p) ==
    /\ pc[p] = "unlink"
    /\ files' = delete_markdown_file(files, op[p].f)
    /\ pc' = [pc EXCEPT ![p] = "delete_row"]
    /\ UNCHANGED <<index, tmp, lock, op, rows, readRows, listing, run, nops, serial,
                   complete, engine, reply>>

\* with FileLock(...): the lock is taken.  sync_new_files lists the directory first.
WorkEnter(p) ==
    /\ pc[p] \in StorePcs
    /\ lock = NoProc
    /\ lock' = p
    /\ listing' = IF pc[p] = "sync" THEN [listing EXCEPT ![p] = list_markdown_files(files)]
                  ELSE listing
    /\ UNCHANGED <<index, tmp, files, pc, op, rows, readRows, run, nops, serial, complete,
                   engine, reply>>

\* A faulty end of the with block: the lock is kept.
UnlockNever(p) == lock' = lock

\* the end of the with FileLock block
Unlock(p) == lock' = NoProc

\* what follows store.update_missing_metadata(updates): the redirect of
\* update_metadata, or _index_markdown_files, of the uploaded file (363) or of
\* store.list_markdown_files() (383)
AfterApply(p) ==
    /\ pc' = [pc EXCEPT ![p] = IF op[p].name = "update_metadata" THEN "respond"
                               ELSE "index_rows"]
    /\ run' = [run EXCEPT
                 ![p].toindex = IF op[p].name = "upload_file" THEN <<run[p].filename>>
                                ELSE IF op[p].name = "process_markdowns"
                                THEN list_markdown_files(files) ELSE <<>>,
                 ![p].status = IF op[p].name = "update_metadata" THEN "303" ELSE @]

\* The method of the store runs under the lock and the lock is released.
WorkLeave(p) ==
    /\ pc[p] \in StorePcs
    /\ lock = p
    /\ Unlock(p)
    /\ LET rs == ReadRows(index, op[p].k)
           row == build_row(run[p].filename, Strip(op[p].row.title),
                            Strip(op[p].row.description), op[p].pub, TodayStr(op[p].k),
                            op[p].k)
       IN  CASE pc[p] = "upsert" ->
                  /\ index' = WriteRows(UpsertRows(rs, row))
                  /\ run' = [run EXCEPT
                               ![p].existing =
                                   [f \in {row.filename} |->
                                       [title |-> row.title, description |-> row.description]],
                               ![p].todo = <<row.filename>>,
                               ![p].candidates = <<row.filename>>]
                  /\ pc' = [pc EXCEPT ![p] = "enrich"]
                  /\ UNCHANGED <<listing, readRows>>
             [] pc[p] = "sync" ->
                  /\ index' = WriteRows(SyncRows(rs, listing[p], FALSE, op[p].k))
                  /\ listing' = [listing EXCEPT ![p] = NewFiles(rs, listing[p])]
                  /\ pc' = [pc EXCEPT ![p] = "snapshot"]
                  /\ UNCHANGED <<run, readRows>>
             [] pc[p] = "snapshot" ->
                  /\ LET candidates ==
                             IF op[p].name = "process_markdowns"
                             THEN SortedSeq(Range(listing[p]) \cup Range(MissingOf(rs)))
                             ELSE MissingOf(rs)
                     IN  run' = [run EXCEPT ![p].existing = ExistingMap(rs),
                                            ![p].todo = candidates,
                                            ![p].candidates = candidates,
                                            ![p].new_files = listing[p],
                                            ![p].snapshot = rs]
                  /\ listing' = [listing EXCEPT ![p] = <<>>]
                  /\ pc' = [pc EXCEPT ![p] = "enrich"]
                  /\ UNCHANGED <<index, readRows>>
             [] pc[p] = "apply" ->
                  /\ index' = WriteRows(UpdateRows(rs, run[p].updates, op[p].k))
                  /\ AfterApply(p)
                  /\ UNCHANGED <<listing, readRows>>
             [] pc[p] = "index_rows" ->
                  /\ readRows' = [readRows EXCEPT ![p] = rs]
                  /\ pc' = [pc EXCEPT ![p] = "index"]
                  /\ UNCHANGED <<index, listing, run>>
             [] pc[p] = "toggle" ->
                  /\ index' = WriteRows(ToggleRows(rs, op[p].f, op[p].pub, op[p].k))
                  /\ pc' = [pc EXCEPT ![p] = "update_visibility"]
                  /\ UNCHANGED <<listing, readRows, run>>
             [] pc[p] = "delete_row" ->
                  /\ index' = WriteRows(DeleteRows(rs, op[p].f))
                  /\ pc' = [pc EXCEPT ![p] = "delete_document"]
                  /\ UNCHANGED <<listing, readRows, run>>
             [] OTHER ->
                  /\ readRows' = [readRows EXCEPT ![p] = rs]
                  /\ pc' = [pc EXCEPT ![p] = "check"]
                  /\ UNCHANGED <<index, listing, run>>
    /\ serial' = index'
    /\ complete' = index'
    /\ UNCHANGED <<tmp, files, op, rows, nops, engine, reply>>

\* _build_metadata_updates 112-116: the file of the candidate is missing
EnrichMissing(p) ==
    /\ pc[p] = "enrich"
    /\ run[p].todo # <<>>
    /\ ~Exists(files, Head(run[p].todo))
    /\ run' = [run EXCEPT
                 ![p].todo = Tail(@),
                 ![p].errors = @ + 1,
                 ![p].visited = Append(@, [filename |-> Head(run[p].todo),
                                           missing |-> TRUE, generated |-> <<>>])]
    /\ UNCHANGED <<index, tmp, lock, files, pc, op, rows, readRows, listing, nops, serial,
                   complete, engine, reply>>

\* _build_metadata_updates 117-119: the content is read and the summarizer called
SummarizeBegin(p) ==
    /\ pc[p] = "enrich"
    /\ run[p].todo # <<>>
    /\ Exists(files, Head(run[p].todo))
    /\ pc' = [pc EXCEPT ![p] = "summarizing"]
    /\ UNCHANGED <<index, tmp, lock, files, op, rows, readRows, listing, run, nops, serial,
                   complete, engine, reply>>

\* A faulty `if payload:`: the payload is stored whatever it holds.
ProposedAlways(upd, f, payload) == WithUpdate(upd, f, payload)

\* lines 130-131: if payload: updates[filename] = payload
Proposed(upd, f, payload) == IF DOMAIN payload # {} THEN WithUpdate(upd, f, payload) ELSE upd

\* _build_metadata_updates 119-131: the summarizer has answered
SummarizeEnd(p, response) ==
    /\ pc[p] = "summarizing"
    /\ LET filename == Head(run[p].todo)
           generated == generate_metadata(response)
       IN  run' = [run EXCEPT
                     ![p].todo = Tail(@),
                     ![p].errors = IF generated = <<>> THEN @ + 1 ELSE @,
                     ![p].updates =
                         IF generated = <<>> THEN @
                         ELSE Proposed(@, filename,
                                       BuildPayload(generated[1],
                                                    ExistingOf(run[p].existing, filename))),
                     ![p].visited = Append(@, [filename |-> filename, missing |-> FALSE,
                                               generated |-> generated])]
    /\ pc' = [pc EXCEPT ![p] = "enrich"]
    /\ UNCHANGED <<index, tmp, lock, files, op, rows, readRows, listing, nops, serial,
                   complete, engine, reply>>

\* _build_metadata_updates returns (132); update_missing_metadata returns at once on
\* an empty map (index_store.py 180-181) and takes the lock otherwise
EnrichReturn(p) ==
    /\ pc[p] = "enrich"
    /\ run[p].todo = <<>>
    /\ IF DOMAIN run[p].updates = {}
       THEN AfterApply(p)
       ELSE /\ pc' = [pc EXCEPT ![p] = "apply"]
            /\ UNCHANGED run
    /\ UNCHANGED <<index, tmp, lock, files, op, rows, readRows, listing, nops, serial,
                   complete, engine, reply>>

\* the engine is not configured: _index_markdown_files (94-95), update_visibility and
\* delete_document return at once; and the end of the loop of _index_markdown_files
EngineSkip(p) ==
    /\ \/ pc[p] \in {"index_rows", "update_visibility", "delete_document"} /\ ~is_enabled(engine)
       \/ pc[p] = "index" /\ run[p].toindex = <<>>
    /\ pc' = [pc EXCEPT ![p] = "respond"]
    /\ run' = [run EXCEPT ![p].status = "303"]
    /\ UNCHANGED <<index, tmp, lock, files, op, rows, readRows, listing, nops, serial,
                   complete, engine, reply>>

\* a call of the engine begins: index_document (103), unless the file is missing
\* (98-100), update_visibility (402), delete_document (413)
EngineBegin(p) ==
    /\ is_enabled(engine)
    /\ \/ /\ pc[p] = "index"
          /\ run[p].toindex # <<>>
          /\ IF Exists(files, Head(run[p].toindex))
             THEN pc' = [pc EXCEPT ![p] = "indexing"] /\ UNCHANGED run
             ELSE run' = [run EXCEPT ![p].toindex = Tail(@)] /\ UNCHANGED pc
       \/ /\ pc[p] = "update_visibility"
          /\ pc' = [pc EXCEPT ![p] = "updating"]
          /\ UNCHANGED run
       \/ /\ pc[p] = "delete_document"
          /\ pc' = [pc EXCEPT ![p] = "deleting"]
          /\ UNCHANGED run
    /\ UNCHANGED <<index, tmp, lock, files, op, rows, readRows, listing, nops, serial,
                   complete, engine, reply>>

\* the call of the engine ends, with the outcomes o1 of the index check and o2 of the
\* call; an exception that leaves the service ends the request
EngineEnd(p, o1, o2) ==
    /\ pc[p] \in {"indexing", "updating", "deleting"}
    /\ LET r == CASE pc[p] = "indexing" ->
                       index_document(engine, Head(run[p].toindex),
                                      PublicOf(readRows[p], Head(run[p].toindex)), o1, o2)
                  [] pc[p] = "updating" ->
                       update_visibility(engine, op[p].f, op[p].pub, o1, o2)
                  [] OTHER -> delete_document(engine, op[p].f, o1, o2)
       IN  /\ engine' = r.engine
           /\ reply' = [reply EXCEPT !.raised = r.raised, !.failed = o2 # "ok"]
           /\ pc' = [pc EXCEPT ![p] = IF pc[p] = "indexing" /\ ~r.raised THEN "index"
                                      ELSE "respond"]
           /\ run' = [run EXCEPT
                        ![p].toindex = IF pc[p] = "indexing" THEN Tail(@) ELSE @,
                        ![p].status = IF r.raised THEN "500"
                                      ELSE IF pc[p] = "indexing" THEN @ ELSE "303"]
    /\ UNCHANGED <<index, tmp, lock, files, op, rows, readRows, listing, nops, serial,
                   complete>>

\* view_markdown 232-243, after get_row: the checks, and the file that is read
ViewCheck(p) ==
    /\ pc[p] = "check"
    /\ LET row == GetRow(readRows[p], op[p].f)
           status == IF row = <<>> THEN "404"
                     ELSE IF ~row[1].is_public /\ ~reply.authenticated THEN "403"
                     ELSE IF ~InsideRoot(op[p].f) THEN "400"
                     ELSE IF ~Exists(files, op[p].f) THEN "404"
                     ELSE "200"
       IN  run' = [run EXCEPT ![p].status = status,
                              ![p].filename = IF status = "200" THEN op[p].f ELSE @]
    /\ pc' = [pc EXCEPT ![p] = "respond"]
    /\ UNCHANGED <<index, tmp, lock, files, op, rows, readRows, listing, nops, serial,
                   complete, engine, reply>>

\* The handler returns its response; the worker is free again.
WorkRespond(p) ==
    /\ pc[p] = "respond"
    /\ pc' = [pc EXCEPT ![p] = "idle"]
    /\ op' = [op EXCEPT ![p] = NoOp]
    /\ run' = [run EXCEPT ![p] = NoRun]
    /\ reply' = NoReply
    /\ UNCHANGED <<index, tmp, lock, files, rows, readRows, listing, nops, serial,
                   complete, engine>>

\* The application starts on one of the repositories, without the engine or with
\* it; the engine holds the document of a.md if a.md has a record.
InitWork ==
    /\ \E c \in ReposIn, configured \in BOOLEAN :
         /\ index = WriteRows(c.rows)
         /\ files = c.files
         /\ engine = [NoEngine EXCEPT
                        !.client = configured,
                        !.docs = IF configured /\ HasRecord(c.rows, fa)
                                 THEN [n \in {fa} |-> PublicOf(c.rows, fa)] ELSE <<>>]
    /\ reply = NoReply
    /\ serial = index
    /\ complete = index
    /\ tmp = [p \in Procs |-> NoFile]
    /\ lock = NoProc
    /\ pc = [p \in Procs |-> "idle"]
    /\ op = [p \in Procs |-> NoOp]
    /\ rows = [p \in Procs |-> <<>>]
    /\ readRows = [p \in Procs |-> <<>>]
    /\ listing = [p \in Procs |-> <<>>]
    /\ run = [p \in Procs |-> NoRun]
    /\ nops = 0

NextWork ==
    \/ \E r \in WorkRequests, a \in BOOLEAN : WorkReceive("p1", r, a)
    \/ WorkSave("p1")
    \/ WorkUnlink("p1")
    \/ WorkEnter("p1")
    \/ WorkLeave("p1")
    \/ EnrichMissing("p1")
    \/ SummarizeBegin("p1")
    \/ \E response \in ResponsesIn : SummarizeEnd("p1", response)
    \/ EnrichReturn("p1")
    \/ EngineSkip("p1")
    \/ EngineBegin("p1")
    \/ \E r \in EngineRunsIn : EngineEnd("p1", r.ensure, r.call)
    \/ ViewCheck("p1")
    \/ WorkRespond("p1")

SpecWork == InitWork /\ [][NextWork]_vars

-----------------------------------------------------------------------------
(* Properties of the handlers, call by call.                               *)

Responding(p, name) == pc[p] = "respond" /\ op[p].name = name

\* C21: when a delete request for f completes, the file f and the record of f are
\* absent, whether the deletion in the engine succeeded or failed; and a delete
\* request that found neither file, record nor engine entry completes without error
\* and leaves files, records and engine entries as they were.
C21_DeleteCompletes ==
    \A p \in Procs :
        Responding(p, "delete_file") =>
            /\ run[p].status = "303"
            /\ ~Exists(files, op[p].f)
            /\ ~HasRecord(Table, op[p].f)
            /\ (/\ ~Exists(run[p].before.files, op[p].f)
                /\ ~HasRecord(run[p].before.table, op[p].f)
                /\ op[p].f \notin DOMAIN run[p].before.docs)
                  => /\ files = run[p].before.files
                     /\ Table = run[p].before.table
                     /\ engine.docs = run[p].before.docs

\* the deletion in the engine failed, the file and the record are gone all the same
C21_Witness ==
    \E p \in Procs :
        /\ Responding(p, "delete_file")
        /\ reply.failed
        /\ op[p].f \in DOMAIN engine.docs
        /\ Exists(run[p].before.files, op[p].f)
        /\ HasRecord(run[p].before.table, op[p].f)
        /\ ~Exists(files, op[p].f)
        /\ ~HasRecord(Table, op[p].f)

MyReport == <<"M", "y", "_", "R", "e", "p", "o", "r", "t">>

my_report == Lower(MyReport)

\* the upload that p serves put the same bytes into an empty repository before
TwiceUploaded(p) ==
    /\ Responding(p, "upload_file")
    /\ op[p].f = fReport
    /\ Len(run[p].before.table) = 1
    /\ Len(list_markdown_files(run[p].before.files)) = 1
    /\ \A n \in Range(list_markdown_files(run[p].before.files)) :
           run[p].before.files[n] = op[p].f

\* C22 as the specification states it: uploading My Report!.md twice into an empty
\* repository yields my_report.md and my_report-1.md.
C22_LowerCaseNames ==
    \A p \in Procs :
        TwiceUploaded(p) =>
            Range(list_markdown_files(files)) =
                {my_report \o ExtMd, my_report \o <<"-", "1">> \o ExtMd}

\* C22: uploading My Report!.md into an empty repository yields My_Report.md, and
\* uploading it a second time yields My_Report-1.md beside it: the stem keeps its
\* capitals, the records are those of the two files.
C22_SecondUploadNumbered ==
    \A p \in Procs :
        Responding(p, "upload_file") /\ op[p].f = fReport =>
            /\ list_markdown_files(run[p].before.files) = <<>> =>
                   run[p].filename = MyReport \o ExtMd
            /\ TwiceUploaded(p) =>
                   /\ run[p].filename = MyReport \o <<"-", "1">> \o ExtMd
                   /\ Range(list_markdown_files(files)) =
                          {MyReport \o ExtMd, MyReport \o <<"-", "1">> \o ExtMd}
                   /\ Range(FileNamesOf(Table)) = Range(list_markdown_files(files))

C22_Witness ==
    \E p \in Procs :
        /\ TwiceUploaded(p)
        /\ run[p].filename = MyReport \o <<"-", "1">> \o ExtMd
        /\ Exists(files, MyReport \o ExtMd)
        /\ Exists(files, run[p].filename)

\* C24: no process holds the index lock while a call of the summarizer or of the
\* search engine that it made is in progress.
C24_NoLockAcrossCalls ==
    \A p \in Procs : pc[p] \in ExternalPcs => lock # p

\* the engine is called for a file of a process pass, after the pass wrote records
\* and the proposed updates under the lock
C24_Witness ==
    \E p \in Procs :
        /\ pc[p] = "indexing"
        /\ op[p].name = "process_markdowns"
        /\ DOMAIN run[p].updates # {}
        /\ Len(Table) > Len(run[p].before.table)
        /\ lock = NoProc

\* the filenames of the turns of the loop, in their order
VisitedNames(p) == [i \in 1..Len(run[p].visited) |-> run[p].visited[i].filename]

\* A result of the summarizer is usable when it holds a title or a description.
Usable(generated) ==
    /\ generated # <<>>
    /\ generated[1].title # <<>> \/ generated[1].description # <<>>

\* the turns that the code counts: a missing file, no result at all
Counted(p) ==
    {i \in 1..Len(run[p].visited) :
        run[p].visited[i].missing \/ run[p].visited[i].generated = <<>>}

\* the turns without a usable result
Failed(p) ==
    {i \in 1..Len(run[p].visited) :
        run[p].visited[i].missing \/ ~Usable(run[p].visited[i].generated)}

\* C25 as the specification states it: when a batch handler responds, the loop has
\* visited every candidate once, in order and to the last, the error count is the
\* number of candidates whose file is missing or whose summarizer call gave no
\* usable result, and the handler reports its summary.
C25_ErrorsAreFailures ==
    \A p \in Procs :
        pc[p] = "respond" /\ op[p].name \in {"process_markdowns", "update_metadata"} =>
            /\ VisitedNames(p) = run[p].candidates
            /\ run[p].errors = Cardinality(Failed(p))
            /\ run[p].status = "303"

\* what the loop does count: missing files and summarizer calls without any result
C25_ErrorsAsCounted ==
    \A p \in Procs :
        pc[p] = "respond" /\ op[p].name \in {"process_markdowns", "update_metadata"} =>
            /\ VisitedNames(p) = run[p].candidates
            /\ run[p].errors = Cardinality(Counted(p))
            /\ run[p].status = "303"

\* the turn of the loop that visited filename
TurnOf(p, filename) ==
    run[p].visited[CHOOSE i \in 1..Len(run[p].visited) : run[p].visited[i].filename = filename]

\* the map of updates holds, for the files visited so far, the fields that the
\* summarizer gave and that the snapshot lacks, and no file without such a field
WellProposed(p) ==
    /\ DOMAIN run[p].updates \subseteq Range(VisitedNames(p))
    /\ \A f \in Range(VisitedNames(p)) :
           LET generated == TurnOf(p, f).generated
               fields == IF generated = <<>> THEN {}
                         ELSE {key \in {"title", "description"} :
                                  /\ generated[1][key] # <<>>
                                  /\ ExistingOf(run[p].existing, f)[key] = <<>>}
           IN  IF fields = {} THEN f \notin DOMAIN run[p].updates
               ELSE /\ f \in DOMAIN run[p].updates
                    /\ DOMAIN run[p].updates[f] = fields
                    /\ \A key \in fields : run[p].updates[f][key] = generated[1][key]

\* C26: _build_metadata_updates proposes a field for a filename only when the value
\* of the summarizer is not empty and the field is empty in the snapshot `existing`;
\* a filename without such a field is absent from the map; and no turn of the loop
\* writes to the index or to the files.
C26_OnlyBlanksProposed ==
    [][\A p \in Procs :
          pc[p] \in {"enrich", "summarizing"} =>
              /\ WellProposed(p)'
              /\ index' = index
              /\ files' = files]_vars

\* one file gets the title alone, its description being set; another got a result
\* and is absent from the map
C26_Witness ==
    \E p \in Procs :
        /\ pc[p] = "enrich"
        /\ run[p].todo = <<>>
        /\ \E f \in DOMAIN run[p].updates :
               /\ DOMAIN run[p].updates[f] = {"title"}
               /\ TurnOf(p, f).generated[1].description # <<>>
        /\ \E i \in 1..Len(run[p].visited) :
               /\ run[p].visited[i].generated # <<>>
               /\ run[p].visited[i].filename \notin DOMAIN run[p].updates

\* the files outside markdown_files/
Outside(dir) == {n \in DOMAIN dir : ~InsideRoot(n)}

\* C27 as the specification states it: a view or delete request whose filename
\* resolves outside the repository root is rejected as an invalid path, and the files
\* outside the root are as they were before the request.
C27_OutsideUntouched ==
    \A p \in Procs :
        /\ pc[p] = "respond"
        /\ op[p].name \in {"view_markdown", "delete_file"}
        /\ ~InsideRoot(op[p].f)
        => /\ run[p].status = "400"
           /\ \A n \in Outside(run[p].before.files) :
                  Exists(files, n) /\ files[n] = run[p].before.files[n]

\* what the code does keep: no request reads a file outside the root, and no request
\* but delete removes or changes one
C27_OutsideReadByNone ==
    \A p \in Procs :
        pc[p] = "respond" =>
            /\ op[p].name = "view_markdown" /\ run[p].status = "200" => InsideRoot(op[p].f)
            /\ op[p].name # "delete_file" =>
                   \A n \in Outside(run[p].before.files) :
                       Exists(files, n) /\ files[n] = run[p].before.files[n]

\* name-k.ext
Numbered(filename, k) ==
    SplitExt(filename).name \o <<"-">> \o IntStr(k) \o SplitExt(filename).ext

\* C28: ensure_unique_filename(name.ext) returns name.ext when no such file exists,
\* and otherwise name-k.ext for the smallest k >= 1 such that name-k.ext does not
\* exist; the name returned names no file that exists at the time of the check.
C28_SmallestFreeName ==
    \A p \in Procs :
        pc[p] = "upsert" =>
            LET dir == run[p].before.files
                filename == sanitize_filename(op[p].f)
                unique_name == run[p].filename
            IN  /\ ~Exists(dir, unique_name)
                /\ ~Exists(dir, filename) => unique_name = filename
                /\ Exists(dir, filename) =>
                       \E k \in 1..(Cardinality(DOMAIN dir) + 1) :
                           /\ unique_name = Numbered(filename, k)
                           /\ \A j \in 1..(k - 1) : Exists(dir, Numbered(filename, j))

\* a.md and a-1.md exist, the upload of a.md is stored as a-2.md
C28_Witness ==
    \E p \in Procs :
        /\ pc[p] = "upsert"
        /\ Exists(run[p].before.files, fa)
        /\ Exists(run[p].before.files, fa1)
        /\ run[p].filename = <<"a", "-", "2", ".", "m", "d">>

\* a sanitized basename with an extension of the allow-list
IsSanitized(filename) ==
    /\ Basename(filename) = filename
    /\ SplitExt(filename).name # <<>>
    /\ Range(SplitExt(filename).name) \subseteq SafeChars
    /\ Lower(SplitExt(filename).ext) \in ALLOWED_EXTENSIONS

\* C30 as the specification states it: after any sequence of uploads and sync passes
\* the filename of every record is a sanitized basename with an extension of the
\* allow-list, the records that sync_new_files created included.
C30_RecordsSanitized ==
    \A i \in 1..Len(Table) : IsSanitized(Table[i].filename)

\* the records that uploads create are sanitized
C30_UploadedSanitized ==
    \A p \in Procs :
        Responding(p, "upload_file") /\ run[p].status = "303" =>
            /\ HasRecord(Table, run[p].filename)
            /\ IsSanitized(run[p].filename)

-----------------------------------------------------------------------------
(* Properties of the handlers that run side by side.                       *)

\* C33 as stated: a sync_new_files that runs beside a delete request never creates
\* the record again: every record that it writes is for a file that exists in the
\* repository when the table is written.
C33_SyncRecordsExistingFiles ==
    [][\A p \in Procs :
          pc[p] = "sync" /\ pc'[p] = "snapshot" =>
              \A n \in Range(listing'[p]) : Exists(files', n)]_vars

-----------------------------------------------------------------------------
(* Enrichment beside deletions: the handlers that fill in titles and       *)
(* descriptions, and delete requests for the files they work on.           *)

EnrichRequests ==
    {Request("process_markdowns", <<>>, <<>>, <<>>, FALSE, 2),
     Request("update_metadata", <<>>, <<>>, <<>>, FALSE, 2),
     Request("delete_file", fb, <<>>, <<>>, FALSE, 2)}

\* the summarizer fails, or answers with a title and a description
EnrichGenerated == {<<>>, <<[title |-> titleY, description |-> descE]>>}

\* A repository whose records lack titles.
InitEnrich ==
    /\ index = WriteRows(<<build_row(fb, <<>>, descD, FALSE, TodayStr(1), 1),
                           build_row(fa, <<>>, <<>>, TRUE, TodayStr(1), 1)>>)
    /\ files = [n \in {fa, fb} |-> "ext"]
    /\ serial = index
    /\ complete = index
    /\ tmp = [p \in Procs |-> NoFile]
    /\ lock = NoProc
    /\ pc = [p \in Procs |-> "idle"]
    /\ op = [p \in Procs |-> NoOp]
    /\ rows = [p \in Procs |-> <<>>]
    /\ readRows = [p \in Procs |-> <<>>]
    /\ listing = [p \in Procs |-> <<>>]
    /\ run = [p \in Procs |-> NoRun]
    /\ nops = 0
    /\ engine = NoEngine
    /\ reply = NoReply

NextEnrich ==
    \/ \E p \in Procs : \E r \in EnrichRequests : Receive(p, r)
    \/ \E p \in Procs : ProcessListDir(p)
    \/ \E p \in Procs : ProcessSync(p)
    \/ \E p \in Procs : Snapshot(p)
    \/ \E p \in Procs : \E g \in EnrichGenerated : EnrichOne(p, g)
    \/ \E p \in Procs : ApplyUpdates(p)
    \/ \E p \in Procs : DeleteUnlink(p)
    \/ \E p \in Procs : DeleteRecord(p)
    \/ \E p \in Procs : Respond(p)

SpecEnrich == InitEnrich /\ [][NextEnrich]_vars

\* process_markdowns or update_metadata calls store.update_missing_metadata(updates)
EnrichmentWritesBack(p) ==
    /\ WritesBack(p)
    /\ op[p].name \in {"process_markdowns", "update_metadata"}
    /\ DOMAIN run[p].updates # {}

\* C35: the write-back of an enrichment makes no record: the table after it has the
\* records of the table before it, in their order, so a record deleted after the
\* snapshot stays deleted; a record with an update gets the fields of its own update
\* and keeps the rest, and a record without update is left as it was.
C35_NoRecordResurrected ==
    [][\A p \in Procs :
          EnrichmentWritesBack(p) =>
              LET before == ReadRows(index, 1)
                  after == ReadRows(index', 1)
                  upd == run[p].updates
              IN  /\ FileNamesOf(after) = FileNamesOf(before)
                  /\ \A f \in DOMAIN run[p].existing :
                         ~HasRecord(before, f) => ~HasRecord(after, f)
                  /\ \A i \in 1..Len(before) :
                         IF before[i].filename \in DOMAIN upd
                         THEN LET u == upd[before[i].filename]
                              IN  /\ after[i].title =
                                        IF Truthy(Get(u, "title")) THEN u["title"]
                                        ELSE before[i].title
                                  /\ after[i].description =
                                        IF Truthy(Get(u, "description"))
                                        THEN u["description"]
                                        ELSE before[i].description
                                  /\ after[i].is_public = before[i].is_public
                                  /\ after[i].date_uploaded = before[i].date_uploaded
                         ELSE after[i] = before[i]]_vars

\* an enrichment has written back updates for a.md and b.md after b.md, which was in
\* its snapshot, was deleted; a.md got its title
C35_Witness ==
    \E p \in Procs :
        /\ pc[p] = "respond"
        /\ op[p].name \in {"process_markdowns", "update_metadata"}
        /\ {fa, fb} \subseteq DOMAIN run[p].updates
        /\ fb \in DOMAIN run[p].existing
        /\ ~HasRecord(Table, fb)
        /\ HasRecord(Table, fa)
        /\ \E i \in 1..Len(Table) : Table[i].filename = fa /\ Table[i].title # <<>>

-----------------------------------------------------------------------------
(* The start of the application (main.py 52-53): every process builds the  *)
(* store and calls ensure_directories, which takes no lock, and then       *)
(* serves calls of the store.                                              *)

\* ensure_directories 69: if not self.index_path.exists()
StartCheck(p) ==
    /\ pc[p] = "start"
    /\ pc' = [pc EXCEPT ![p] = IF index.exists THEN "idle" ELSE "init_write"]
    /\ UNCHANGED <<index, tmp, lock, files, op, rows, readRows, listing, run, nops, serial,
                   complete, engine, reply>>

\* ensure_directories 70: self._write_rows([]), which ends with os.replace
StartWrite(p) ==
    /\ pc[p] = "init_write"
    /\ index' = WriteRows(<<>>)
    /\ serial' = WriteRows(<<>>)
    /\ complete' = WriteRows(<<>>)
    /\ pc' = [pc EXCEPT ![p] = "idle"]
    /\ UNCHANGED <<tmp, lock, files, op, rows, readRows, listing, run, nops, engine, reply>>

\* No index file yet, or the table an earlier run left; every process is starting.
InitStart ==
    /\ index \in {NoFile} \cup {WriteRows(t) : t \in InitTables}
    /\ serial = index
    /\ complete = index
    /\ files \in InitDirs
    /\ tmp = [p \in Procs |-> NoFile]
    /\ lock = NoProc
    /\ pc = [p \in Procs |-> "start"]
    /\ op = [p \in Procs |-> NoOp]
    /\ rows = [p \in Procs |-> <<>>]
    /\ readRows = [p \in Procs |-> <<>>]
    /\ listing = [p \in Procs |-> <<>>]
    /\ run = [p \in Procs |-> NoRun]
    /\ nops = 0
    /\ engine = NoEngine
    /\ reply = NoReply

NextStart ==
    \/ \E p \in Procs : StartCheck(p)
    \/ \E p \in Procs : StartWrite(p)
    \/ \E p \in Procs : \E o \in FairOps : Begin(p, o)
    \/ \E p \in Procs : ListDir(p)
    \/ \E p \in Procs : Acquire(p)
    \/ \E p \in Procs : ReadModify(p)
    \/ \E p \in Procs : OpenTmp(p)
    \/ \E p \in Procs : WriteRow(p)
    \/ \E p \in Procs : Replace(p)
    \/ \E p \in Procs : Release(p)
    \/ \E p \in Procs : Return(p)

SpecStart == InitStart /\ [][NextStart]_vars

\* C32 as stated: ensure_directories writes the empty table only if it found no
\* index file, and its write never replaces a table that holds records.
C32_StartKeepsRecords ==
    [][\A p \in Procs :
          pc[p] = "init_write" /\ pc'[p] = "idle" => Len(ReadRows(index, 1)) = 0]_vars

\* what does hold: the empty table is written only by a process that found no file
C32_WritesOnlyIfAbsent ==
    [][\A p \in Procs :
          pc[p] = "start" /\ pc'[p] = "init_write" => ~index.exists]_vars

-----------------------------------------------------------------------------
(* What a search finds after the handlers have run.                        *)

\* The answer of the engine to a query that every document matches: a hit for each
\* document of its index, and with the filter {"term": {"is_public": True}}
\* (search_service.py 107-108) only for those it holds as public.
EngineHits(docs, public_only) ==
    LET found == SortedSeq({f \in DOMAIN docs : ~public_only \/ docs[f]})
    IN  [i \in 1..Len(found) |-> [filename |-> found[i], fragments |-> <<>>]]

\* the results of _run_search for a caller who is not authenticated, the engine
\* answering
FoundByAnyone ==
    _run_search(engine, <<"a">>, FALSE, "ok", "ok", EngineHits(engine.docs, TRUE), index,
                files, 1).reply.results

\* C34 as stated: when no request is in progress, every result of _run_search for a
\* caller who is not authenticated names a document whose record is public,
\* whatever calls of the engine failed before.
C34_OnlyPublicFound ==
    (\A p \in Procs : pc[p] = "idle") =>
        \A i \in 1..Len(FoundByAnyone) :
            /\ HasRecord(Table, FoundByAnyone[i].filename)
            /\ PublicOf(Table, FoundByAnyone[i].filename)

-----------------------------------------------------------------------------
(* The summary of process_markdowns.                                       *)

\* main.py 383-390: the summary that the handler flashes, from its locals new_files,
\* rows, missing_existing, updates and errors
ProcessSummary(p) ==
    LET total_indexed == Len(run[p].snapshot)
        missing_existing == MissingOf(run[p].snapshot)
    IN  [new_files |-> Len(run[p].new_files),
         enriched |-> Cardinality(DOMAIN run[p].updates),
         skipped |-> Max(total_indexed - Len(run[p].new_files) - Len(missing_existing), 0),
         errors |-> run[p].errors]

\* the records of p's snapshot that its sync created
CreatedBySync(p) ==
    {i \in 1..Len(run[p].snapshot) :
        run[p].snapshot[i].filename \in Range(run[p].new_files)}

\* the records of p's snapshot that were there before and have title and description
CompleteBefore(p) ==
    {i \in 1..Len(run[p].snapshot) \ CreatedBySync(p) :
        run[p].snapshot[i].title # <<>> /\ run[p].snapshot[i].description # <<>>}

\* C36 as stated: in the summary of process_markdowns, skipped is the number of
\* records of the snapshot that this sync did not create and that had title and
\* description, so new_files, the records from before that lack a title or a
\* description, and skipped add up to the number of records; new_files is the number
\* of records the sync created, and skipped is not negative.
C36_SkippedCountsComplete ==
    \A p \in Procs :
        Responding(p, "process_markdowns") =>
            LET summary == ProcessSummary(p)
                lacking == (1..Len(run[p].snapshot) \ CreatedBySync(p)) \ CompleteBefore(p)
            IN  /\ summary.skipped = Cardinality(CompleteBefore(p))
                /\ summary.new_files + Cardinality(lacking) + summary.skipped
                       = Len(run[p].snapshot)
                /\ summary.new_files = Cardinality(CreatedBySync(p))
                /\ summary.skipped >= 0

=============================================================================
